---- MODULE Spec2Model ----
(***************************************************************************)
(* Model of src/rust/src/x509/extensions.rs: the DER encoders of X.509     *)
(* certificate and CRL extensions and the OID dispatcher encode_extension. *)
(*                                                                         *)
(* A state is one call of encode_extension(py, oid, ext): the arguments    *)
(* (oid, ext), the position of the call (pc) and its result.  Init draws   *)
(* the arguments; one action per match arm of encode_extension computes    *)
(* the result with the operators below, each translated from the function  *)
(* of the same name.                                                       *)
(***************************************************************************)
EXTENDS Integers, Sequences, FiniteSets, TLC

VARIABLES oid, ext, pc, result

vars == <<oid, ext, pc, result>>

(***************************************************************************)
(* Bounds of the input space.                                              *)
(***************************************************************************)
MaxScts == 2
MaxPolicies == 2
MaxQualifiers == 2
MaxNumbers == 2
MaxNames == 2
MaxOids == 2
MaxDps == 2

(***************************************************************************)
(* Host (Python) objects.  Every object is a record with a `kind` (its     *)
(* class) and its attributes; getattr is a lookup in the record's domain.  *)
(***************************************************************************)
PyNone == [kind |-> "NoneType"]
PyBool(b) == [kind |-> "bool", b |-> b]
PyInt(n) == [kind |-> "int", n |-> n]
PyStr(cs) == [kind |-> "str", chars |-> cs]
PyBytes(d) == [kind |-> "bytes", data |-> d]
PyList(xs) == [kind |-> "list", items |-> xs]

(***************************************************************************)
(* Rust Result and Option values.                                          *)
(***************************************************************************)
Ok(v) == [ok |-> TRUE, val |-> v]
Err(e) == [ok |-> FALSE, err |-> e]
None == <<>>
Some(v) == <<v>>
is_some(o) == Len(o) = 1
unwrap(o) == o[1]

\* ext.getattr(name)?
has_attr(obj, name) == name \in DOMAIN obj

\* obj.is_none()
is_none(obj) == obj.kind = "NoneType"

\* obj.is_truthy()?: Python truth value.  None, False, 0 and empty
\* containers (objects defining __len__, modelled by an `items` attribute)
\* are false; every other object is true.
is_truthy(obj) ==
    CASE obj.kind = "NoneType" -> FALSE
      [] obj.kind = "bool" -> obj.b
      [] obj.kind = "int" -> obj.n # 0
      [] obj.kind = "str" -> Len(obj.chars) > 0
      [] obj.kind = "bytes" -> Len(obj.data) > 0
      [] has_attr(obj, "items") -> Len(obj.items) > 0
      [] OTHER -> TRUE

\* obj.iter()?: the elements of an iterable in order, or a TypeError.
iter(obj) ==
    CASE has_attr(obj, "items") -> Ok(obj.items)
      [] obj.kind = "str" -> Ok([i \in 1..Len(obj.chars) |-> PyStr(<<obj.chars[i]>>)])
      [] obj.kind = "bytes" -> Ok([i \in 1..Len(obj.data) |-> PyInt(obj.data[i])])
      [] OTHER -> Err("TypeError")

(***************************************************************************)
(* Bytes and integers.                                                     *)
(***************************************************************************)
\* u8::trailing_zeros
RECURSIVE trailing_zeros(_)
trailing_zeros(b) ==
    IF b = 0 THEN 8 ELSE IF b % 2 = 1 THEN 0 ELSE 1 + trailing_zeros(b \div 2)

\* x | mask, for a one-bit mask
bit_or(x, mask) == IF (x \div mask) % 2 = 1 THEN x ELSE x + mask

\* `n as u16`
as_u16(n) == n % 65536

\* u16::to_be_bytes
to_be_bytes(x) == <<x \div 256, x % 256>>

\* The minimal big-endian bytes of a natural number (no leading zero byte).
RECURSIVE be_bytes(_)
be_bytes(n) == IF n < 256 THEN <<n>> ELSE be_bytes(n \div 256) \o <<n % 256>>

(***************************************************************************)
(* The ASN.1 writer (crate asn1).  Primitive values are written to their   *)
(* DER bytes; a constructed value is written as the tree of its fields,    *)
(* which DER maps one-to-one to bytes.                                     *)
(***************************************************************************)
\* DER definite length octets
der_length(n) == IF n < 128 THEN <<n>> ELSE <<128 + Len(be_bytes(n))>> \o be_bytes(n)

\* asn1::BitString::new(bits, unused_bits): None unless the value is
\* well formed (padding within 0..7, none on empty data, padding bits zero).
BitString_new(bits, unused_bits) ==
    IF \/ unused_bits > 7
       \/ (Len(bits) = 0 /\ unused_bits # 0)
       \/ (unused_bits > 0 /\ bits[Len(bits)] % (2 ^ unused_bits) # 0)
    THEN None
    ELSE Some([asn1 |-> "BitString", bits |-> bits, unused_bits |-> unused_bits])

\* asn1::write_single(&v)
write_single(v) ==
    CASE v.asn1 = "BitString" ->
           <<3>> \o der_length(1 + Len(v.bits)) \o <<v.unused_bits>> \o v.bits
      [] v.asn1 = "OctetString" -> <<4>> \o der_length(Len(v.bytes)) \o v.bytes
      [] v.asn1 = "Null" -> <<5, 0>>
      [] v.asn1 = "BigUint" -> <<2>> \o der_length(Len(v.bytes)) \o v.bytes
      [] OTHER -> v

OctetString(bytes) == [asn1 |-> "OctetString", bytes |-> bytes]
Null == [asn1 |-> "Null"]

(***************************************************************************)
(* encode_key_usage                                                        *)
(***************************************************************************)
\* certificate::set_bit(vals, n, set): bit n, most significant bit first.
set_bit(vals, n, set) ==
    LET idx == n \div 8
        v == 2 ^ (7 - (n % 8))
    IN IF set THEN [vals EXCEPT ![idx + 1] = bit_or(@, v)] ELSE vals

\* The seven flags that are always read, in bit order 0..6.
KeyUsageFlags ==
    <<"digital_signature", "content_commitment", "key_encipherment",
      "data_encipherment", "key_agreement", "key_cert_sign", "crl_sign">>

\* bits 0..n-1 of the mask, each set from the attribute of that position
RECURSIVE key_usage_set_flags(_, _)
key_usage_set_flags(e, n) ==
    IF n = 0 THEN Ok(<<0, 0>>)
    ELSE LET r == key_usage_set_flags(e, n - 1)
         IN IF ~r.ok THEN r
            ELSE IF ~has_attr(e, KeyUsageFlags[n]) THEN Err("AttributeError")
            ELSE Ok(set_bit(r.val, n - 1, is_truthy(e[KeyUsageFlags[n]])))

\* A plausible slip: encipher_only and decipher_only written whatever
\* key_agreement is.
key_usage_mask_unconditional(e) ==
    LET r == key_usage_set_flags(e, 7)
    IN IF ~r.ok THEN r
       ELSE IF ~has_attr(e, "encipher_only") THEN Err("AttributeError")
       ELSE IF ~has_attr(e, "decipher_only") THEN Err("AttributeError")
       ELSE Ok(set_bit(set_bit(r.val, 7, is_truthy(e.encipher_only)),
                       8, is_truthy(e.decipher_only)))

\* A plausible slip: encipher_only and decipher_only one position late.
key_usage_mask_shifted(e) ==
    LET r == key_usage_set_flags(e, 7)
    IN IF ~r.ok THEN r
       ELSE IF ~is_truthy(e.key_agreement) THEN r
       ELSE IF ~has_attr(e, "encipher_only") THEN Err("AttributeError")
       ELSE IF ~has_attr(e, "decipher_only") THEN Err("AttributeError")
       ELSE Ok(set_bit(set_bit(r.val, 8, is_truthy(e.encipher_only)),
                       9, is_truthy(e.decipher_only)))

\* The two-byte mask bs of encode_key_usage.
key_usage_mask(e) ==
    LET r == key_usage_set_flags(e, 7)
    IN IF ~r.ok THEN r
       ELSE IF ~is_truthy(e.key_agreement) THEN r
       ELSE IF ~has_attr(e, "encipher_only") THEN Err("AttributeError")
       ELSE IF ~has_attr(e, "decipher_only") THEN Err("AttributeError")
       ELSE Ok(set_bit(set_bit(r.val, 7, is_truthy(e.encipher_only)),
                       8, is_truthy(e.decipher_only)))

\* A plausible slip: both bytes always written, with no unused bits.
key_usage_trim_naive(bs) == <<bs, 0>>

\* (bits, unused_bits): the mask without its trailing zero bytes.
key_usage_trim(bs) ==
    IF bs[2] = 0
    THEN IF bs[1] = 0
         THEN <<SubSeq(bs, 1, 0), 0>>
         ELSE <<SubSeq(bs, 1, 1), trailing_zeros(bs[1])>>
    ELSE <<bs, trailing_zeros(bs[2])>>

encode_key_usage(e) ==
    LET m == key_usage_mask(e)
    IN IF ~m.ok THEN m
       ELSE LET t == key_usage_trim(m.val)
                v == BitString_new(t[1], t[2])
            IN IF is_some(v) THEN Ok(write_single(unwrap(v)))
               ELSE Err("panic: called Option::unwrap() on a None value")

(***************************************************************************)
(* encode_scts                                                             *)
(***************************************************************************)
\* First loop: length += sct.sct_data.len() + 2
RECURSIVE scts_length(_)
scts_length(items) ==
    IF Len(items) = 0 THEN Ok(0)
    ELSE LET r == scts_length(SubSeq(items, 1, Len(items) - 1))
             sct == items[Len(items)]
         IN IF ~r.ok THEN r
            ELSE IF sct.kind # "Sct" THEN Err("TypeError")
            ELSE Ok(r.val + Len(sct.sct_data) + 2)

\* Second loop: the length-prefixed entries appended to result
RECURSIVE scts_entries(_)
scts_entries(items) ==
    IF Len(items) = 0 THEN Ok(<<>>)
    ELSE LET r == scts_entries(SubSeq(items, 1, Len(items) - 1))
             sct == items[Len(items)]
         IN IF ~r.ok THEN r
            ELSE IF sct.kind # "Sct" THEN Err("TypeError")
            ELSE Ok(r.val \o to_be_bytes(as_u16(Len(sct.sct_data))) \o sct.sct_data)

encode_scts(e) ==
    LET it == iter(e)
    IN IF ~it.ok THEN it
       ELSE LET length == scts_length(it.val)
            IN IF ~length.ok THEN length
               ELSE LET entries == scts_entries(it.val)
                    IN IF ~entries.ok THEN entries
                       ELSE Ok(write_single(OctetString(
                                to_be_bytes(as_u16(length.val)) \o entries.val)))

(***************************************************************************)
(* The `?` operator: the plumbing of fallible steps.  Each helper takes    *)
(* the results of the steps before it and stops at their first error.      *)
(***************************************************************************)
\* Ok(Some(v?))
ok_some(r) == IF r.ok THEN Ok(Some(r.val)) ELSE r

\* asn1::SequenceOfWriter::new(elems): SEQUENCE OF, elements in the given order
SequenceOfWriter_new(elems) == [asn1 |-> "SequenceOf", elems |-> elems]

\* Ok(SequenceOfWriter::new(v?))
ok_seq_of(r) == IF r.ok THEN Ok(SequenceOfWriter_new(r.val)) ELSE r

\* Ok(asn1::write_single(&v?)?)
ok_write(r) == IF r.ok THEN Ok(write_single(r.val)) ELSE r

\* vec.push(x?) after the pushes before it
ok_push(r, x) == IF ~r.ok THEN r ELSE IF ~x.ok THEN x ELSE Ok(Append(r.val, x.val))

(***************************************************************************)
(* Collaborators: conversions of host values (crate::asn1, pyo3) and the   *)
(* name encoders of x509::common and certificate.                          *)
(***************************************************************************)
\* obj.extract::<bool>()?
extract_bool(obj) == IF obj.kind = "bool" THEN Ok(obj.b) ELSE Err("TypeError")

\* obj.extract::<u64>()? (a Python bool is an int; every integer of the
\* model is below 2^64, so only a negative one overflows)
extract_u64(obj) ==
    CASE obj.kind = "bool" -> Ok(IF obj.b THEN 1 ELSE 0)
      [] obj.kind = "int" -> IF obj.n >= 0 THEN Ok(obj.n) ELSE Err("OverflowError")
      [] OTHER -> Err("TypeError")

\* obj.extract::<Option<u64>>()?
extract_option_u64(obj) == IF is_none(obj) THEN Ok(None) ELSE ok_some(extract_u64(obj))

\* obj.extract::<PyBackedBytes>()?
extract_bytes(obj) == IF obj.kind = "bytes" THEN Ok(obj.data) ELSE Err("TypeError")

\* obj.extract::<PyBackedStr>()?
extract_str(obj) == IF obj.kind = "str" THEN Ok(obj.chars) ELSE Err("TypeError")

\* obj.downcast::<PyLong>()? / extract::<Bound<PyLong>>()
downcast_long(obj) ==
    CASE obj.kind = "int" -> Ok(obj.n)
      [] obj.kind = "bool" -> Ok(IF obj.b THEN 1 ELSE 0)
      [] OTHER -> Err("TypeError")

\* int.bit_length()
RECURSIVE bit_length(_)
bit_length(n) == IF n = 0 THEN 0 ELSE 1 + bit_length(n \div 2)

\* int.to_bytes(len, "big")
RECURSIVE to_bytes(_, _)
to_bytes(n, len) ==
    IF len = 0 THEN <<>> ELSE to_bytes(n \div 256, len - 1) \o <<n % 256>>

\* crate::asn1::py_uint_to_big_endian_bytes: the big-endian bytes of a
\* non-negative integer, with a leading zero byte where the top bit of the
\* first byte would otherwise be set.
py_uint_to_big_endian_bytes(n) ==
    IF n < 0 THEN Err("ValueError: Negative integers are not supported")
    ELSE Ok(to_bytes(n, bit_length(n) \div 8 + 1))

\* asn1::BigUint::new(bytes): None unless bytes is a minimal non-negative
\* INTEGER encoding.
BigUint_new(bytes) ==
    IF \/ Len(bytes) = 0
       \/ bytes[1] >= 128
       \/ (Len(bytes) > 1 /\ bytes[1] = 0 /\ bytes[2] < 128)
    THEN None
    ELSE Some([asn1 |-> "BigUint", bytes |-> bytes])

\* asn1::BigUint::new(&bytes?).unwrap()
BigUint_unwrap(b) ==
    IF ~b.ok THEN b
    ELSE IF is_some(BigUint_new(b.val)) THEN Ok(unwrap(BigUint_new(b.val)))
    ELSE Err("panic: called Option::unwrap() on a None value")

\* the integer n as an unsigned INTEGER
big_uint(n) == BigUint_unwrap(py_uint_to_big_endian_bytes(n))

\* a host integer object as an unsigned INTEGER
big_uint_of(intval) == IF ~intval.ok THEN intval ELSE big_uint(intval.val)

\* crate::asn1::py_oid_to_oid
py_oid_to_oid(obj) ==
    IF obj.kind = "ObjectIdentifier"
    THEN Ok([asn1 |-> "ObjectIdentifier", dotted_string |-> obj.dotted_string])
    ELSE Err("TypeError")

\* x509::common::encode_general_name
GeneralNameKinds == {"DNSName", "UniformResourceIdentifier", "RFC822Name"}
encode_general_name(obj) ==
    IF obj.kind \in GeneralNameKinds
    THEN Ok([asn1 |-> "GeneralName", choice |-> obj.kind, value |-> obj.value.chars])
    ELSE Err("ValueError: Unsupported GeneralName type")

\* x509::common::encode_general_names: every element in order
RECURSIVE general_names_loop(_)
general_names_loop(items) ==
    IF Len(items) = 0 THEN Ok(<<>>)
    ELSE ok_push(general_names_loop(SubSeq(items, 1, Len(items) - 1)),
                 encode_general_name(items[Len(items)]))

encode_general_names(obj) ==
    LET it == iter(obj) IN IF ~it.ok THEN it ELSE general_names_loop(it.val)

\* x509::common::encode_name_entry
encode_name_entry(obj) ==
    IF obj.kind = "NameAttribute"
    THEN Ok([asn1 |-> "AttributeTypeValue", type_id |-> obj.oid.dotted_string,
             value |-> obj.value.chars])
    ELSE Err("AttributeError")

\* lexicographic order of byte strings
RECURSIVE lex_le(_, _)
lex_le(a, b) ==
    IF Len(a) = 0 THEN TRUE
    ELSE IF Len(b) = 0 THEN FALSE
    ELSE IF a[1] # b[1] THEN a[1] < b[1]
    ELSE lex_le(Tail(a), Tail(b))

\* asn1::SetOfWriter::new(elems): SET OF; DER writes the elements sorted by
\* their encoding (here: by the attribute value).
RECURSIVE sorted_insert(_, _)
sorted_insert(x, xs) ==
    IF Len(xs) = 0 THEN <<x>>
    ELSE IF lex_le(x.value, Head(xs).value) THEN <<x>> \o xs
    ELSE <<Head(xs)>> \o sorted_insert(x, Tail(xs))

RECURSIVE sorted(_)
sorted(xs) == IF Len(xs) = 0 THEN <<>> ELSE sorted_insert(Head(xs), sorted(Tail(xs)))

SetOfWriter_new(elems) == [asn1 |-> "SetOf", elems |-> sorted(elems)]

\* the loop over relative_name: encode_name_entry of every element in order
RECURSIVE name_entries_loop(_)
name_entries_loop(items) ==
    IF Len(items) = 0 THEN Ok(<<>>)
    ELSE ok_push(name_entries_loop(SubSeq(items, 1, Len(items) - 1)),
                 encode_name_entry(items[Len(items)]))

\* certificate::encode_distribution_point_reasons: the reason flags as a
\* bit string (kept as the set of the flags it was built from).
encode_distribution_point_reasons(obj) ==
    LET it == iter(obj)
    IN IF ~it.ok THEN it
       ELSE IF \E i \in 1..Len(it.val) : it.val[i].kind # "ReasonFlags"
       THEN Err("KeyError")
       ELSE Ok([asn1 |-> "ReasonFlags",
                flags |-> {it.val[i].flag : i \in 1..Len(it.val)}])

\* Some(SequenceOfWriter::new(encode_general_names(py)?)) if py is Some
optional_general_names(py) ==
    IF ~is_none(py) THEN ok_some(ok_seq_of(encode_general_names(py))) ELSE Ok(None)

(***************************************************************************)
(* encode_general_subtrees                                                 *)
(***************************************************************************)
\* extensions::GeneralSubtree { base: gn, minimum: 0, maximum: None }
GeneralSubtree(gn) ==
    IF ~gn.ok THEN gn
    ELSE Ok([asn1 |-> "GeneralSubtree", base |-> gn.val, minimum |-> 0,
             maximum |-> None])

\* A plausible slip: the list walked from its end, so the subtrees come out
\* reversed.
RECURSIVE general_subtrees_loop_reversed(_)
general_subtrees_loop_reversed(items) ==
    IF Len(items) = 0 THEN Ok(<<>>)
    ELSE ok_push(general_subtrees_loop_reversed(Tail(items)),
                 GeneralSubtree(encode_general_name(items[1])))

\* for name in subtrees.iter()? { subtree_seq.push(GeneralSubtree{..}) }
RECURSIVE general_subtrees_loop(_)
general_subtrees_loop(items) ==
    IF Len(items) = 0 THEN Ok(<<>>)
    ELSE ok_push(general_subtrees_loop(SubSeq(items, 1, Len(items) - 1)),
                 GeneralSubtree(encode_general_name(items[Len(items)])))

encode_general_subtrees(subtrees) ==
    IF is_none(subtrees) THEN Ok(None)
    ELSE LET it == iter(subtrees)
         IN IF ~it.ok THEN it
            ELSE ok_some(ok_seq_of(general_subtrees_loop(it.val)))

\* extensions::NameConstraints { permitted_subtrees, excluded_subtrees }
NameConstraints(permitted_subtrees, excluded_subtrees) ==
    IF ~permitted_subtrees.ok THEN permitted_subtrees
    ELSE IF ~excluded_subtrees.ok THEN excluded_subtrees
    ELSE Ok([asn1 |-> "NameConstraints",
             permitted_subtrees |-> permitted_subtrees.val,
             excluded_subtrees |-> excluded_subtrees.val])

\* the NAME_CONSTRAINTS_OID arm of encode_extension
encode_name_constraints(e) ==
    IF ~has_attr(e, "permitted_subtrees") THEN Err("AttributeError")
    ELSE IF ~has_attr(e, "excluded_subtrees") THEN Err("AttributeError")
    ELSE ok_write(NameConstraints(encode_general_subtrees(e.permitted_subtrees),
                                  encode_general_subtrees(e.excluded_subtrees)))

(***************************************************************************)
(* encode_authority_key_identifier                                         *)
(***************************************************************************)
\* Some(BigUint) of the serial number if it is Some
aki_serial_number(py) ==
    IF ~is_none(py) THEN ok_some(big_uint_of(downcast_long(py))) ELSE Ok(None)

\* extensions::AuthorityKeyIdentifier { .. }
AuthorityKeyIdentifier(authority_cert_issuer, authority_cert_serial_number, key_identifier) ==
    IF ~authority_cert_issuer.ok THEN authority_cert_issuer
    ELSE IF ~authority_cert_serial_number.ok THEN authority_cert_serial_number
    ELSE Ok([asn1 |-> "AuthorityKeyIdentifier",
             authority_cert_issuer |-> authority_cert_issuer.val,
             authority_cert_serial_number |-> authority_cert_serial_number.val,
             key_identifier |->
                 IF is_none(key_identifier) THEN None ELSE Some(key_identifier.data)])

encode_authority_key_identifier(py_aki) ==
    IF ~has_attr(py_aki, "key_identifier") THEN Err("AttributeError")
    ELSE IF ~(is_none(py_aki.key_identifier) \/ py_aki.key_identifier.kind = "bytes")
    THEN Err("TypeError")
    ELSE IF ~has_attr(py_aki, "authority_cert_issuer") THEN Err("AttributeError")
    ELSE IF ~has_attr(py_aki, "authority_cert_serial_number") THEN Err("AttributeError")
    ELSE IF ~(is_none(py_aki.authority_cert_serial_number)
              \/ downcast_long(py_aki.authority_cert_serial_number).ok)
    THEN Err("TypeError")
    ELSE ok_write(AuthorityKeyIdentifier(
             optional_general_names(py_aki.authority_cert_issuer),
             aki_serial_number(py_aki.authority_cert_serial_number),
             py_aki.key_identifier))

(***************************************************************************)
(* The distribution-point name CHOICE                                      *)
(***************************************************************************)
\* Some(DistributionPointName::FullName(SequenceOfWriter::new(gns?)))
FullName(gns) ==
    IF ~gns.ok THEN gns
    ELSE Ok(Some([asn1 |-> "DistributionPointName", choice |-> "FullName",
                  name |-> SequenceOfWriter_new(gns.val)]))

\* Some(DistributionPointName::NameRelativeToCRLIssuer(SetOfWriter::new(..)))
NameRelativeToCRLIssuer(name_entries) ==
    IF ~name_entries.ok THEN name_entries
    ELSE Ok(Some([asn1 |-> "DistributionPointName",
                  choice |-> "NameRelativeToCRLIssuer",
                  name |-> SetOfWriter_new(name_entries.val)]))

\* the FullName branch
full_name_choice(py_full_name) == FullName(encode_general_names(py_full_name))

\* the NameRelativeToCRLIssuer branch
relative_name_choice(py_relative_name) ==
    LET it == iter(py_relative_name)
    IN IF ~it.ok THEN it ELSE NameRelativeToCRLIssuer(name_entries_loop(it.val))

(***************************************************************************)
(* encode_distribution_points                                              *)
(***************************************************************************)
\* let distribution_point = if let Some(py_full_name) = py_dp.full_name ..
dp_distribution_point(py_dp) ==
    IF ~is_none(py_dp.full_name) THEN full_name_choice(py_dp.full_name)
    ELSE IF ~is_none(py_dp.relative_name) THEN relative_name_choice(py_dp.relative_name)
    ELSE Ok(None)

\* let reasons = if let Some(py_reasons) = py_dp.reasons ..
dp_reasons(py_reasons) ==
    IF ~is_none(py_reasons) THEN ok_some(encode_distribution_point_reasons(py_reasons))
    ELSE Ok(None)

\* extensions::DistributionPoint { crl_issuer, distribution_point, reasons }
DistributionPoint(crl_issuer, distribution_point, reasons) ==
    IF ~crl_issuer.ok THEN crl_issuer
    ELSE IF ~distribution_point.ok THEN distribution_point
    ELSE IF ~reasons.ok THEN reasons
    ELSE Ok([asn1 |-> "DistributionPoint",
             crl_issuer |-> crl_issuer.val,
             distribution_point |-> distribution_point.val,
             reasons |-> reasons.val])

\* one pass of the loop body: a PyDistributionPoint to a DistributionPoint
encode_distribution_point(py_dp) ==
    IF \E a \in {"crl_issuer", "full_name", "relative_name", "reasons"} :
           ~has_attr(py_dp, a)
    THEN Err("AttributeError")
    ELSE DistributionPoint(optional_general_names(py_dp.crl_issuer),
                           dp_distribution_point(py_dp),
                           dp_reasons(py_dp.reasons))

\* for py_dp in py_dps.iter()? { .. dps.push(..) }
RECURSIVE distribution_points_loop(_)
distribution_points_loop(items) ==
    IF Len(items) = 0 THEN Ok(<<>>)
    ELSE ok_push(distribution_points_loop(SubSeq(items, 1, Len(items) - 1)),
                 encode_distribution_point(items[Len(items)]))

encode_distribution_points(py_dps) ==
    LET it == iter(py_dps)
    IN IF ~it.ok THEN it ELSE ok_write(ok_seq_of(distribution_points_loop(it.val)))

(***************************************************************************)
(* encode_issuing_distribution_point                                       *)
(***************************************************************************)
\* let only_some_reasons = if ext.getattr("only_some_reasons")?.is_truthy()? ..
idp_only_some_reasons(e) ==
    IF ~has_attr(e, "only_some_reasons") THEN Err("AttributeError")
    ELSE IF is_truthy(e.only_some_reasons)
    THEN ok_some(encode_distribution_point_reasons(e.only_some_reasons))
    ELSE Ok(None)

\* let distribution_point = if ext.getattr("full_name")?.is_truthy()? ..
idp_distribution_point(e) ==
    IF ~has_attr(e, "full_name") THEN Err("AttributeError")
    ELSE IF is_truthy(e.full_name) THEN full_name_choice(e.full_name)
    ELSE IF ~has_attr(e, "relative_name") THEN Err("AttributeError")
    ELSE IF is_truthy(e.relative_name) THEN relative_name_choice(e.relative_name)
    ELSE Ok(None)

IdpFlags ==
    <<"indirect_crl", "only_contains_attribute_certs", "only_contains_ca_certs",
      "only_contains_user_certs">>

\* crl::IssuingDistributionPoint { .. }
IssuingDistributionPoint(only_some_reasons, distribution_point, e) ==
    IF ~only_some_reasons.ok THEN only_some_reasons
    ELSE IF ~distribution_point.ok THEN distribution_point
    ELSE IF \E i \in 1..4 :
               /\ ~has_attr(e, IdpFlags[i])
               /\ \A j \in 1..(i - 1) :
                      has_attr(e, IdpFlags[j]) /\ extract_bool(e[IdpFlags[j]]).ok
    THEN Err("AttributeError")
    ELSE IF \E i \in 1..4 : ~extract_bool(e[IdpFlags[i]]).ok THEN Err("TypeError")
    ELSE Ok([asn1 |-> "IssuingDistributionPoint",
             distribution_point |-> distribution_point.val,
             indirect_crl |-> e.indirect_crl.b,
             only_contains_attribute_certs |-> e.only_contains_attribute_certs.b,
             only_contains_ca_certs |-> e.only_contains_ca_certs.b,
             only_contains_user_certs |-> e.only_contains_user_certs.b,
             only_some_reasons |-> only_some_reasons.val])

encode_issuing_distribution_point(e) ==
    ok_write(IssuingDistributionPoint(idp_only_some_reasons(e),
                                      idp_distribution_point(e), e))

(***************************************************************************)
(* encode_basic_constraints                                                *)
(***************************************************************************)
\* extensions::BasicConstraints { ca, path_length }
BasicConstraints(ca, path_length) ==
    IF ~ca.ok THEN ca
    ELSE IF ~path_length.ok THEN path_length
    ELSE Ok([asn1 |-> "BasicConstraints", ca |-> ca.val,
             path_length |-> path_length.val])

encode_basic_constraints(e) ==
    IF ~has_attr(e, "ca") THEN Err("AttributeError")
    ELSE IF ~extract_bool(e.ca).ok THEN Err("TypeError")
    ELSE IF ~has_attr(e, "path_length") THEN Err("AttributeError")
    ELSE ok_write(BasicConstraints(extract_bool(e.ca),
                                   extract_option_u64(e.path_length)))

(***************************************************************************)
(* encode_certificate_policies                                             *)
(***************************************************************************)
\* asn1::IA5String::new(s): None unless s is ASCII
IA5String_new(chars) ==
    IF \A i \in 1..Len(chars) : chars[i] < 128
    THEN Some([asn1 |-> "IA5String", chars |-> chars])
    ELSE None

\* asn1::Utf8String::new(s)
Utf8String_new(chars) == [asn1 |-> "Utf8String", chars |-> chars]

\* for py_num in notice_numbers.iter()? { notice_numbers.push(BigUint) }
RECURSIVE notice_numbers_loop(_)
notice_numbers_loop(items) ==
    IF Len(items) = 0 THEN Ok(<<>>)
    ELSE ok_push(notice_numbers_loop(SubSeq(items, 1, Len(items) - 1)),
                 big_uint_of(downcast_long(items[Len(items)])))

\* Some(extensions::NoticeReference { organization, notice_numbers })
NoticeReference(notice_numbers, py_notice) ==
    IF ~notice_numbers.ok THEN notice_numbers
    ELSE IF ~has_attr(py_notice, "organization") THEN Err("AttributeError")
    ELSE IF ~extract_str(py_notice.organization).ok THEN Err("TypeError")
    ELSE Ok(Some([asn1 |-> "NoticeReference",
                  organization |-> Utf8String_new(py_notice.organization.chars),
                  notice_numbers |-> SequenceOfWriter_new(notice_numbers.val)]))

\* let notice_ref = if py_notice.is_truthy()? { .. } else { None }
encode_notice_reference(py_notice) ==
    IF ~is_truthy(py_notice) THEN Ok(None)
    ELSE IF ~has_attr(py_notice, "notice_numbers") THEN Err("AttributeError")
    ELSE LET it == iter(py_notice.notice_numbers)
         IN IF ~it.ok THEN it
            ELSE NoticeReference(notice_numbers_loop(it.val), py_notice)

\* let explicit_text = if py_explicit_text.is_truthy()? { .. } else { None }
encode_explicit_text(py_qualifier) ==
    IF ~has_attr(py_qualifier, "explicit_text") THEN Err("AttributeError")
    ELSE IF ~is_truthy(py_qualifier.explicit_text) THEN Ok(None)
    ELSE IF ~extract_str(py_qualifier.explicit_text).ok THEN Err("TypeError")
    ELSE Ok(Some(Utf8String_new(py_qualifier.explicit_text.chars)))

\* PolicyQualifierInfo { CP_USER_NOTICE_OID, UserNotice { notice_ref, explicit_text } }
UserNotice(notice_ref, explicit_text) ==
    IF ~notice_ref.ok THEN notice_ref
    ELSE IF ~explicit_text.ok THEN explicit_text
    ELSE Ok([asn1 |-> "PolicyQualifierInfo",
             policy_qualifier_id |-> "CP_USER_NOTICE_OID",
             qualifier |-> [asn1 |-> "UserNotice",
                            notice_ref |-> notice_ref.val,
                            explicit_text |-> explicit_text.val]])

\* the else branch of the qualifier loop: a UserNotice
encode_user_notice(py_qualifier) ==
    IF ~has_attr(py_qualifier, "notice_reference") THEN Err("AttributeError")
    ELSE UserNotice(encode_notice_reference(py_qualifier.notice_reference),
                    encode_explicit_text(py_qualifier))

\* A plausible slip: a non-ASCII CPS URI written as it is, without the check.
encode_qualifier_unchecked(py_qualifier) ==
    IF py_qualifier.kind = "str"
    THEN Ok([asn1 |-> "PolicyQualifierInfo",
             policy_qualifier_id |-> "CP_CPS_URI_OID",
             qualifier |-> [asn1 |-> "IA5String", chars |-> py_qualifier.chars]])
    ELSE encode_user_notice(py_qualifier)

\* the body of the qualifier loop: a CPS URI (a str) or a UserNotice
encode_qualifier(py_qualifier) ==
    IF py_qualifier.kind = "str"
    THEN IF ~is_some(IA5String_new(py_qualifier.chars))
         THEN Err("ValueError: Qualifier must be an ASCII-string.")
         ELSE Ok([asn1 |-> "PolicyQualifierInfo",
                  policy_qualifier_id |-> "CP_CPS_URI_OID",
                  qualifier |-> unwrap(IA5String_new(py_qualifier.chars))])
    ELSE encode_user_notice(py_qualifier)

\* for py_qualifier in py_policy_qualifiers.iter()? { qualifiers.push(..) }
RECURSIVE qualifiers_loop(_)
qualifiers_loop(items) ==
    IF Len(items) = 0 THEN Ok(<<>>)
    ELSE ok_push(qualifiers_loop(SubSeq(items, 1, Len(items) - 1)),
                 encode_qualifier(items[Len(items)]))

\* let qualifiers = if py_policy_qualifiers.is_truthy()? { .. } else { None }
policy_qualifiers(py_policy_qualifiers) ==
    IF is_truthy(py_policy_qualifiers)
    THEN LET it == iter(py_policy_qualifiers)
         IN IF ~it.ok THEN it ELSE ok_some(ok_seq_of(qualifiers_loop(it.val)))
    ELSE Ok(None)

\* extensions::PolicyInformation { policy_identifier, policy_qualifiers }
PolicyInformation(qualifiers, py_policy_info) ==
    IF ~qualifiers.ok THEN qualifiers
    ELSE IF ~has_attr(py_policy_info, "policy_identifier") THEN Err("AttributeError")
    ELSE IF ~py_oid_to_oid(py_policy_info.policy_identifier).ok THEN Err("TypeError")
    ELSE Ok([asn1 |-> "PolicyInformation",
             policy_identifier |-> py_oid_to_oid(py_policy_info.policy_identifier).val,
             policy_qualifiers |-> qualifiers.val])

\* the body of the policy loop: one PolicyInformation
encode_policy_information(py_policy_info) ==
    IF ~has_attr(py_policy_info, "policy_qualifiers") THEN Err("AttributeError")
    ELSE PolicyInformation(policy_qualifiers(py_policy_info.policy_qualifiers),
                           py_policy_info)

\* for py_policy_info in ext.iter()? { policy_informations.push(..) }
RECURSIVE policy_informations_loop(_)
policy_informations_loop(items) ==
    IF Len(items) = 0 THEN Ok(<<>>)
    ELSE ok_push(policy_informations_loop(SubSeq(items, 1, Len(items) - 1)),
                 encode_policy_information(items[Len(items)]))

encode_certificate_policies(e) ==
    LET it == iter(e)
    IN IF ~it.ok THEN it ELSE ok_write(ok_seq_of(policy_informations_loop(it.val)))

(***************************************************************************)
(* encode_oid_sequence, encode_tls_features                                *)
(***************************************************************************)
\* A plausible slip: an OID already in the list is not pushed again.
RECURSIVE oid_sequence_loop_dedup(_)
oid_sequence_loop_dedup(items) ==
    IF Len(items) = 0 THEN Ok(<<>>)
    ELSE IF \E i \in 1..(Len(items) - 1) : items[i] = items[Len(items)]
    THEN oid_sequence_loop_dedup(SubSeq(items, 1, Len(items) - 1))
    ELSE ok_push(oid_sequence_loop_dedup(SubSeq(items, 1, Len(items) - 1)),
                 py_oid_to_oid(items[Len(items)]))

\* for el in ext.iter()? { oids.push(py_oid_to_oid(el?)?) }
RECURSIVE oid_sequence_loop(_)
oid_sequence_loop(items) ==
    IF Len(items) = 0 THEN Ok(<<>>)
    ELSE ok_push(oid_sequence_loop(SubSeq(items, 1, Len(items) - 1)),
                 py_oid_to_oid(items[Len(items)]))

encode_oid_sequence(e) ==
    LET it == iter(e)
    IN IF ~it.ok THEN it ELSE ok_write(ok_seq_of(oid_sequence_loop(it.val)))

\* el?.getattr("value")?.extract::<u64>()?
tls_feature_value(el) ==
    IF ~has_attr(el, "value") THEN Err("AttributeError") ELSE extract_u64(el.value)

\* for el in ext.iter()? { els.push(..) }
RECURSIVE tls_features_loop(_)
tls_features_loop(items) ==
    IF Len(items) = 0 THEN Ok(<<>>)
    ELSE ok_push(tls_features_loop(SubSeq(items, 1, Len(items) - 1)),
                 tls_feature_value(items[Len(items)]))

encode_tls_features(e) ==
    LET it == iter(e)
    IN IF ~it.ok THEN it ELSE ok_write(ok_seq_of(tls_features_loop(it.val)))

(***************************************************************************)
(* The remaining arms of encode_extension                                  *)
(***************************************************************************)
\* an OCTET STRING of the bytes
ok_octet_string(bytes) == IF ~bytes.ok THEN bytes ELSE Ok(OctetString(bytes.val))

\* SUBJECT_KEY_IDENTIFIER_OID
encode_subject_key_identifier(e) ==
    IF ~has_attr(e, "digest") THEN Err("AttributeError")
    ELSE ok_write(ok_octet_string(extract_bytes(e.digest)))

\* x509::common::encode_access_descriptions
AccessDescription(access_method, access_location) ==
    IF ~access_method.ok THEN access_method
    ELSE IF ~access_location.ok THEN access_location
    ELSE Ok([asn1 |-> "AccessDescription", access_method |-> access_method.val,
             access_location |-> access_location.val])

encode_access_description(ad) ==
    IF ~has_attr(ad, "access_method") \/ ~has_attr(ad, "access_location")
    THEN Err("AttributeError")
    ELSE AccessDescription(py_oid_to_oid(ad.access_method),
                           encode_general_name(ad.access_location))

RECURSIVE access_descriptions_loop(_)
access_descriptions_loop(items) ==
    IF Len(items) = 0 THEN Ok(<<>>)
    ELSE ok_push(access_descriptions_loop(SubSeq(items, 1, Len(items) - 1)),
                 encode_access_description(items[Len(items)]))

encode_access_descriptions(e) ==
    LET it == iter(e)
    IN IF ~it.ok THEN it ELSE ok_write(ok_seq_of(access_descriptions_loop(it.val)))

\* extensions::PolicyConstraints { .. }
PolicyConstraints(require_explicit_policy, inhibit_policy_mapping) ==
    IF ~require_explicit_policy.ok THEN require_explicit_policy
    ELSE IF ~inhibit_policy_mapping.ok THEN inhibit_policy_mapping
    ELSE Ok([asn1 |-> "PolicyConstraints",
             require_explicit_policy |-> require_explicit_policy.val,
             inhibit_policy_mapping |-> inhibit_policy_mapping.val])

\* POLICY_CONSTRAINTS_OID
encode_policy_constraints(e) ==
    IF ~has_attr(e, "require_explicit_policy") THEN Err("AttributeError")
    ELSE IF ~extract_option_u64(e.require_explicit_policy).ok
    THEN extract_option_u64(e.require_explicit_policy)
    ELSE IF ~has_attr(e, "inhibit_policy_mapping") THEN Err("AttributeError")
    ELSE ok_write(PolicyConstraints(extract_option_u64(e.require_explicit_policy),
                                    extract_option_u64(e.inhibit_policy_mapping)))

\* the big-integer arms: INHIBIT_ANY_POLICY_OID reads skip_certs,
\* CRL_NUMBER_OID | DELTA_CRL_INDICATOR_OID read crl_number
encode_big_integer(e, attr) ==
    IF ~has_attr(e, attr) THEN Err("AttributeError")
    ELSE ok_write(big_uint_of(downcast_long(e[attr])))

\* ISSUER_ALTERNATIVE_NAME_OID | SUBJECT_ALTERNATIVE_NAME_OID and
\* CERTIFICATE_ISSUER_OID
encode_alternative_names(e) == ok_write(ok_seq_of(encode_general_names(e)))

\* OCSP_NO_CHECK_OID and PRECERT_POISON_OID: asn1::write_single(&())
encode_null(e) == Ok(write_single(Null))

\* types::CRL_ENTRY_REASON_ENUM_TO_CODE
CrlEntryReasonCode ==
    [unspecified |-> 0, key_compromise |-> 1, ca_compromise |-> 2,
     superseded |-> 4, remove_from_crl |-> 8]

\* CRL_REASON_OID
encode_crl_reason(e) ==
    IF ~has_attr(e, "reason") THEN Err("AttributeError")
    ELSE IF e.reason.kind # "ReasonFlags" THEN Err("KeyError")
    ELSE IF e.reason.flag \notin DOMAIN CrlEntryReasonCode THEN Err("KeyError")
    ELSE Ok(write_single([asn1 |-> "Enumerated",
                          value |-> CrlEntryReasonCode[e.reason.flag]]))

\* INVALIDITY_DATE_OID: x509::py_to_datetime, asn1::GeneralizedTime::new
encode_invalidity_date(e) ==
    IF ~has_attr(e, "invalidity_date") THEN Err("AttributeError")
    ELSE IF e.invalidity_date.kind # "datetime" THEN Err("AttributeError")
    ELSE Ok(write_single([asn1 |-> "GeneralizedTime",
                          timestamp |-> e.invalidity_date.timestamp]))

\* NONCE_OID
encode_nonce(e) ==
    IF ~has_attr(e, "nonce") THEN Err("AttributeError")
    ELSE ok_write(ok_octet_string(extract_bytes(e.nonce)))

\* extensions::MSCertificateTemplate { .. }
MSCertificateTemplate(template_id, major_version, minor_version) ==
    IF ~template_id.ok THEN template_id
    ELSE IF ~major_version.ok THEN major_version
    ELSE IF ~minor_version.ok THEN minor_version
    ELSE Ok([asn1 |-> "MSCertificateTemplate", template_id |-> template_id.val,
             major_version |-> major_version.val,
             minor_version |-> minor_version.val])

\* MS_CERTIFICATE_TEMPLATE
encode_ms_certificate_template(e) ==
    IF ~has_attr(e, "template_id") THEN Err("AttributeError")
    ELSE IF ~py_oid_to_oid(e.template_id).ok THEN py_oid_to_oid(e.template_id)
    ELSE IF ~has_attr(e, "major_version") THEN Err("AttributeError")
    ELSE IF ~extract_option_u64(e.major_version).ok
    THEN extract_option_u64(e.major_version)
    ELSE IF ~has_attr(e, "minor_version") THEN Err("AttributeError")
    ELSE ok_write(MSCertificateTemplate(py_oid_to_oid(e.template_id),
                                        extract_option_u64(e.major_version),
                                        extract_option_u64(e.minor_version)))

(***************************************************************************)
(* encode_extension                                                        *)
(***************************************************************************)
\* A plausible slip: ACCEPTABLE_RESPONSES_OID left out of its pattern.
match_arm_split(o) ==
    CASE o = "BASIC_CONSTRAINTS_OID" -> "basic_constraints"
      [] o = "SUBJECT_KEY_IDENTIFIER_OID" -> "subject_key_identifier"
      [] o = "KEY_USAGE_OID" -> "key_usage"
      [] o \in {"AUTHORITY_INFORMATION_ACCESS_OID",
               "SUBJECT_INFORMATION_ACCESS_OID"} -> "access_descriptions"
      [] o = "EXTENDED_KEY_USAGE_OID" -> "oid_sequence"
      [] o = "CERTIFICATE_POLICIES_OID" -> "certificate_policies"
      [] o = "POLICY_CONSTRAINTS_OID" -> "policy_constraints"
      [] o = "NAME_CONSTRAINTS_OID" -> "name_constraints"
      [] o = "INHIBIT_ANY_POLICY_OID" -> "inhibit_any_policy"
      [] o \in {"ISSUER_ALTERNATIVE_NAME_OID",
               "SUBJECT_ALTERNATIVE_NAME_OID"} -> "alternative_name"
      [] o = "AUTHORITY_KEY_IDENTIFIER_OID" -> "authority_key_identifier"
      [] o \in {"FRESHEST_CRL_OID",
               "CRL_DISTRIBUTION_POINTS_OID"} -> "distribution_points"
      [] o = "OCSP_NO_CHECK_OID" -> "ocsp_no_check"
      [] o = "TLS_FEATURE_OID" -> "tls_feature"
      [] o = "PRECERT_POISON_OID" -> "precert_poison"
      [] o \in {"PRECERT_SIGNED_CERTIFICATE_TIMESTAMPS_OID",
               "SIGNED_CERTIFICATE_TIMESTAMPS_OID"} -> "scts"
      [] o = "CRL_REASON_OID" -> "crl_reason"
      [] o = "CERTIFICATE_ISSUER_OID" -> "certificate_issuer"
      [] o = "INVALIDITY_DATE_OID" -> "invalidity_date"
      [] o \in {"CRL_NUMBER_OID", "DELTA_CRL_INDICATOR_OID"} -> "crl_number"
      [] o = "ISSUING_DISTRIBUTION_POINT_OID" -> "issuing_distribution_point"
      [] o = "NONCE_OID" -> "nonce"
      [] o = "MS_CERTIFICATE_TEMPLATE" -> "ms_certificate_template"
      [] OTHER -> "_"

\* `match oid { .. }`: the arm whose pattern holds the OID; "_" is the
\* wildcard arm.
match_arm(o) ==
    CASE o = "BASIC_CONSTRAINTS_OID" -> "basic_constraints"
      [] o = "SUBJECT_KEY_IDENTIFIER_OID" -> "subject_key_identifier"
      [] o = "KEY_USAGE_OID" -> "key_usage"
      [] o \in {"AUTHORITY_INFORMATION_ACCESS_OID",
               "SUBJECT_INFORMATION_ACCESS_OID"} -> "access_descriptions"
      [] o \in {"EXTENDED_KEY_USAGE_OID", "ACCEPTABLE_RESPONSES_OID"} -> "oid_sequence"
      [] o = "CERTIFICATE_POLICIES_OID" -> "certificate_policies"
      [] o = "POLICY_CONSTRAINTS_OID" -> "policy_constraints"
      [] o = "NAME_CONSTRAINTS_OID" -> "name_constraints"
      [] o = "INHIBIT_ANY_POLICY_OID" -> "inhibit_any_policy"
      [] o \in {"ISSUER_ALTERNATIVE_NAME_OID",
               "SUBJECT_ALTERNATIVE_NAME_OID"} -> "alternative_name"
      [] o = "AUTHORITY_KEY_IDENTIFIER_OID" -> "authority_key_identifier"
      [] o \in {"FRESHEST_CRL_OID",
               "CRL_DISTRIBUTION_POINTS_OID"} -> "distribution_points"
      [] o = "OCSP_NO_CHECK_OID" -> "ocsp_no_check"
      [] o = "TLS_FEATURE_OID" -> "tls_feature"
      [] o = "PRECERT_POISON_OID" -> "precert_poison"
      [] o \in {"PRECERT_SIGNED_CERTIFICATE_TIMESTAMPS_OID",
               "SIGNED_CERTIFICATE_TIMESTAMPS_OID"} -> "scts"
      [] o = "CRL_REASON_OID" -> "crl_reason"
      [] o = "CERTIFICATE_ISSUER_OID" -> "certificate_issuer"
      [] o = "INVALIDITY_DATE_OID" -> "invalidity_date"
      [] o \in {"CRL_NUMBER_OID", "DELTA_CRL_INDICATOR_OID"} -> "crl_number"
      [] o = "ISSUING_DISTRIBUTION_POINT_OID" -> "issuing_distribution_point"
      [] o = "NONCE_OID" -> "nonce"
      [] o = "MS_CERTIFICATE_TEMPLATE" -> "ms_certificate_template"
      [] OTHER -> "_"

\* A plausible slip: an unsupported OID reported as an error.
no_encoding_as_error == Err("ValueError: Extension not supported")

\* `_ => Ok(None)`
no_encoding == Ok(None)

\* `let der = ..?; Ok(Some(der))`
some_der(der) == IF der.ok THEN Ok(Some(der.val)) ELSE der

\* the body of the arm a on the value e
arm_result(a, e) ==
    CASE a = "basic_constraints" -> some_der(encode_basic_constraints(e))
      [] a = "subject_key_identifier" -> some_der(encode_subject_key_identifier(e))
      [] a = "key_usage" -> some_der(encode_key_usage(e))
      [] a = "access_descriptions" -> some_der(encode_access_descriptions(e))
      [] a = "oid_sequence" -> some_der(encode_oid_sequence(e))
      [] a = "certificate_policies" -> some_der(encode_certificate_policies(e))
      [] a = "policy_constraints" -> some_der(encode_policy_constraints(e))
      [] a = "name_constraints" -> some_der(encode_name_constraints(e))
      [] a = "inhibit_any_policy" -> some_der(encode_big_integer(e, "skip_certs"))
      [] a = "alternative_name" -> some_der(encode_alternative_names(e))
      [] a = "authority_key_identifier" -> some_der(encode_authority_key_identifier(e))
      [] a = "distribution_points" -> some_der(encode_distribution_points(e))
      [] a = "ocsp_no_check" -> some_der(encode_null(e))
      [] a = "tls_feature" -> some_der(encode_tls_features(e))
      [] a = "precert_poison" -> some_der(encode_null(e))
      [] a = "scts" -> some_der(encode_scts(e))
      [] a = "crl_reason" -> some_der(encode_crl_reason(e))
      [] a = "certificate_issuer" -> some_der(encode_alternative_names(e))
      [] a = "invalidity_date" -> some_der(encode_invalidity_date(e))
      [] a = "crl_number" -> some_der(encode_big_integer(e, "crl_number"))
      [] a = "issuing_distribution_point" -> some_der(encode_issuing_distribution_point(e))
      [] a = "nonce" -> some_der(encode_nonce(e))
      [] a = "ms_certificate_template" -> some_der(encode_ms_certificate_template(e))
      [] OTHER -> no_encoding

encode_extension(o, e) == arm_result(match_arm(o), e)

(***************************************************************************)
(* The host objects the encoders are called with.                          *)
(***************************************************************************)
\* all sequences of at most n elements of S
SeqsUpTo(S, n) == UNION {[1..k -> S] : k \in 0..n}

\* an iterable host object of class k
Iterable(k, xs) == [kind |-> k, items |-> xs]

ObjectIdentifier(d) == [kind |-> "ObjectIdentifier", dotted_string |-> d]
DNSName(cs) == [kind |-> "DNSName", value |-> PyStr(cs)]
\* an object the general-name encoder rejects
NotAGeneralName == [kind |-> "object"]
NameAttribute(o, cs) ==
    [kind |-> "NameAttribute", oid |-> ObjectIdentifier(o), value |-> PyStr(cs)]
ReasonFlags(f) == [kind |-> "ReasonFlags", flag |-> f]

\* a string with a code point outside ASCII: 'h', U+00E9
NonAscii == <<104, 233>>

Oids == {ObjectIdentifier("1.3.6.1.5.5.7.3.1"), ObjectIdentifier("1.3.6.1.5.5.7.3.2")}
GeneralNames == {DNSName(<<97>>), DNSName(<<98>>)}
NameLists == {PyList(xs) : xs \in SeqsUpTo(GeneralNames, MaxNames)}
OptionalNameLists == {PyNone} \cup NameLists
RelativeNames ==
    {PyNone,
     Iterable("RelativeDistinguishedName", <<>>),
     Iterable("RelativeDistinguishedName", <<NameAttribute("2.5.4.3", <<98>>)>>),
     Iterable("RelativeDistinguishedName",
              <<NameAttribute("2.5.4.3", <<98>>), NameAttribute("2.5.4.10", <<97>>)>>)}
Reasons ==
    {PyNone, Iterable("frozenset", <<>>),
     Iterable("frozenset", <<ReasonFlags("key_compromise")>>)}

\* KeyUsage: every combination of the nine flags, and the host class's own
\* objects, on which encipher_only and decipher_only cannot be read unless
\* key_agreement is true
KeyUsageAttrs ==
    {"digital_signature", "content_commitment", "key_encipherment",
     "data_encipherment", "key_agreement", "key_cert_sign", "crl_sign",
     "encipher_only", "decipher_only"}
KeyUsage(f) ==
    [kind |-> "KeyUsage",
     digital_signature |-> PyBool(f["digital_signature"]),
     content_commitment |-> PyBool(f["content_commitment"]),
     key_encipherment |-> PyBool(f["key_encipherment"]),
     data_encipherment |-> PyBool(f["data_encipherment"]),
     key_agreement |-> PyBool(f["key_agreement"]),
     key_cert_sign |-> PyBool(f["key_cert_sign"]),
     crl_sign |-> PyBool(f["crl_sign"]),
     encipher_only |-> PyBool(f["encipher_only"]),
     decipher_only |-> PyBool(f["decipher_only"])]
KeyUsageNoAgreement(f) ==
    [kind |-> "KeyUsage",
     digital_signature |-> PyBool(f["digital_signature"]),
     content_commitment |-> PyBool(f["content_commitment"]),
     key_encipherment |-> PyBool(f["key_encipherment"]),
     data_encipherment |-> PyBool(f["data_encipherment"]),
     key_agreement |-> PyBool(FALSE),
     key_cert_sign |-> PyBool(f["key_cert_sign"]),
     crl_sign |-> PyBool(f["crl_sign"])]
KeyUsages ==
    {KeyUsage(f) : f \in [KeyUsageAttrs -> BOOLEAN]}
    \cup {KeyUsageNoAgreement(f) :
            f \in [KeyUsageAttrs \ {"key_agreement", "encipher_only", "decipher_only"}
                   -> BOOLEAN]}

\* SCT lists: blobs of these lengths, byte i of a blob of length n being
\* (i + n) % 256
SctLens == {0, 3, 5, 32767, 65535}
Sct(n) == [kind |-> "Sct", sct_data |-> [i \in 1..n |-> (i + n) % 256]]
SctLists ==
    {Iterable("SignedCertificateTimestamps", xs) :
        xs \in SeqsUpTo({Sct(n) : n \in SctLens}, MaxScts)}

\* CertificatePolicies
PyUserNotice(nr, et) == [kind |-> "UserNotice", notice_reference |-> nr, explicit_text |-> et]
PyNoticeReference(org, nums) ==
    [kind |-> "NoticeReference", organization |-> PyStr(org), notice_numbers |-> PyList(nums)]
PyPolicyInformation(pid, quals) ==
    [kind |-> "PolicyInformation", policy_identifier |-> pid, policy_qualifiers |-> quals]
NoticeReferences ==
    {PyNone}
    \cup {PyNoticeReference(<<97>>, nums) :
            nums \in SeqsUpTo({PyInt(1), PyInt(128), PyInt(-1)}, MaxNumbers)}
UserNotices ==
    {PyUserNotice(nr, et) : nr \in NoticeReferences,
                          et \in {PyNone, PyStr(<<>>), PyStr(<<98>>), PyStr(NonAscii)}}
\* qualifiers of the many-policy lists, of the one-policy lists; the host
\* class checks neither the sign of a notice number nor the class of
\* explicit_text
FewQualifiers ==
    {PyStr(<<97>>), PyStr(NonAscii), PyUserNotice(PyNone, PyInt(5))}
SomeQualifiers ==
    FewQualifiers
    \cup {PyStr(<<98>>), PyStr(<<>>), PyUserNotice(PyNone, PyStr(<<98>>)),
          PyUserNotice(PyNoticeReference(<<97>>, <<PyInt(-1)>>), PyNone),
          PyUserNotice(PyNoticeReference(<<97>>, <<PyInt(2), PyInt(1), PyInt(2)>>), PyNone)}
PolicyLists ==
    {Iterable("CertificatePolicies", ps) :
        ps \in SeqsUpTo({PyPolicyInformation(ObjectIdentifier("2.5.29.32.0"), qs) :
                           qs \in {PyNone} \cup {PyList(q) :
                                     q \in SeqsUpTo(FewQualifiers, MaxQualifiers)}},
                        MaxPolicies)}
    \cup {Iterable("CertificatePolicies", <<PyPolicyInformation(pid, PyList(q))>>) :
            pid \in Oids, q \in SeqsUpTo(SomeQualifiers, MaxQualifiers)}
    \cup {Iterable("CertificatePolicies",
                   <<PyPolicyInformation(ObjectIdentifier("2.5.29.32.0"), PyList(<<un>>))>>) :
            un \in UserNotices}

\* NameConstraints
NameConstraintsSet ==
    {[kind |-> "NameConstraints", permitted_subtrees |-> p, excluded_subtrees |-> x] :
        p \in {PyNone} \cup {PyList(xs) :
                 xs \in SeqsUpTo(GeneralNames \cup {NotAGeneralName}, MaxNames)},
        x \in {PyNone} \cup {PyList(xs) :
                 xs \in SeqsUpTo(GeneralNames \cup {NotAGeneralName}, MaxNames)}}

\* CRLDistributionPoints / FreshestCRL
PyDistributionPoint(fn, rn, rs, ci) ==
    [kind |-> "DistributionPoint", full_name |-> fn, relative_name |-> rn,
     reasons |-> rs, crl_issuer |-> ci]
DistributionPointLists ==
    {Iterable("CRLDistributionPoints", <<PyDistributionPoint(fn, rn, rs, ci)>>) :
        fn \in OptionalNameLists, rn \in RelativeNames, rs \in Reasons,
        ci \in {PyNone, PyList(<<>>), PyList(<<DNSName(<<97>>)>>)}}
    \cup {Iterable("CRLDistributionPoints", dps) :
            dps \in SeqsUpTo({PyDistributionPoint(PyList(<<DNSName(<<97>>)>>), PyNone,
                                                PyNone, PyNone),
                              PyDistributionPoint(PyNone,
                                  Iterable("RelativeDistinguishedName",
                                           <<NameAttribute("2.5.4.3", <<98>>)>>),
                                  PyNone, PyNone),
                              PyDistributionPoint(PyNone, PyNone, PyNone,
                                                PyList(<<DNSName(<<98>>)>>))},
                             MaxDps)}

\* IssuingDistributionPoint
IssuingDistributionPoints ==
    {[kind |-> "IssuingDistributionPoint", full_name |-> fn, relative_name |-> rn,
      only_some_reasons |-> rs, indirect_crl |-> PyBool(ic),
      only_contains_attribute_certs |-> PyBool(FALSE),
      only_contains_ca_certs |-> PyBool(FALSE),
      only_contains_user_certs |-> PyBool(uc)] :
        fn \in OptionalNameLists, rn \in RelativeNames, rs \in Reasons,
        ic \in BOOLEAN, uc \in BOOLEAN}

\* the list-shaped scalar extensions
OidLists ==
    {Iterable("ExtendedKeyUsage", xs) : xs \in SeqsUpTo(Oids \cup {PyInt(1)}, MaxOids)}
TlsFeatures ==
    {Iterable("TLSFeature", xs) :
        xs \in SeqsUpTo({[kind |-> "TLSFeatureType", value |-> PyInt(5)],
                         [kind |-> "TLSFeatureType", value |-> PyInt(17)]}, MaxNumbers)}
AlternativeNames ==
    {Iterable("GeneralNames", xs) :
        xs \in SeqsUpTo(GeneralNames \cup {NotAGeneralName}, MaxNames)}
AccessDescriptions ==
    {Iterable("AuthorityInformationAccess", xs) :
        xs \in SeqsUpTo({[kind |-> "AccessDescription", access_method |-> o,
                          access_location |-> DNSName(<<97>>)] : o \in Oids}, MaxOids)}

\* the scalar extensions
IntegerValues == {PyInt(0), PyInt(1), PyInt(127), PyInt(128), PyInt(255), PyInt(256),
             PyInt(65535), PyInt(-1)}
OptionalCounts == {PyNone, PyInt(0), PyInt(3)}
BasicConstraintsSet ==
    {[kind |-> "BasicConstraints", ca |-> PyBool(ca), path_length |-> pl] :
        ca \in BOOLEAN, pl \in OptionalCounts}
SubjectKeyIdentifiers ==
    {[kind |-> "SubjectKeyIdentifier", digest |-> PyBytes(d)] : d \in {<<>>, <<1, 2>>}}
PolicyConstraintsSet ==
    {[kind |-> "PolicyConstraints", require_explicit_policy |-> r,
      inhibit_policy_mapping |-> i] : r \in OptionalCounts, i \in OptionalCounts}
InhibitAnyPolicies == {[kind |-> "InhibitAnyPolicy", skip_certs |-> n] : n \in IntegerValues}
AuthorityKeyIdentifiers ==
    {[kind |-> "AuthorityKeyIdentifier", key_identifier |-> k,
      authority_cert_issuer |-> i, authority_cert_serial_number |-> n] :
        k \in {PyNone, PyBytes(<<1, 2>>)},
        i \in {PyNone, PyList(<<>>), PyList(<<DNSName(<<97>>)>>)},
        n \in {PyNone, PyInt(1), PyInt(128)}}
CrlReasons ==
    {[kind |-> "CRLReason", reason |-> ReasonFlags(f)] :
        f \in {"unspecified", "key_compromise", "remove_from_crl", "no_such_reason"}}
InvalidityDates ==
    {[kind |-> "InvalidityDate",
      invalidity_date |-> [kind |-> "datetime", timestamp |-> t]] : t \in {0, 86400}}
CrlNumbers == {[kind |-> "CRLNumber", crl_number |-> n] : n \in IntegerValues}
Nonces == {[kind |-> "OCSPNonce", nonce |-> PyBytes(d)] : d \in {<<>>, <<7>>}}
MsCertificateTemplates ==
    {[kind |-> "MSCertificateTemplate", template_id |-> o, major_version |-> ma,
      minor_version |-> mi] : o \in Oids, ma \in OptionalCounts, mi \in OptionalCounts}
Markers == {[kind |-> "OCSPNoCheck"], [kind |-> "PrecertPoison"]}

\* every OID of the model: the OIDs of the match arms and two others
TableOids ==
    {"BASIC_CONSTRAINTS_OID", "SUBJECT_KEY_IDENTIFIER_OID", "KEY_USAGE_OID",
     "AUTHORITY_INFORMATION_ACCESS_OID", "SUBJECT_INFORMATION_ACCESS_OID",
     "EXTENDED_KEY_USAGE_OID", "ACCEPTABLE_RESPONSES_OID", "CERTIFICATE_POLICIES_OID",
     "POLICY_CONSTRAINTS_OID", "NAME_CONSTRAINTS_OID", "INHIBIT_ANY_POLICY_OID",
     "ISSUER_ALTERNATIVE_NAME_OID", "SUBJECT_ALTERNATIVE_NAME_OID",
     "AUTHORITY_KEY_IDENTIFIER_OID", "FRESHEST_CRL_OID", "CRL_DISTRIBUTION_POINTS_OID",
     "OCSP_NO_CHECK_OID", "TLS_FEATURE_OID", "PRECERT_POISON_OID",
     "PRECERT_SIGNED_CERTIFICATE_TIMESTAMPS_OID", "SIGNED_CERTIFICATE_TIMESTAMPS_OID",
     "CRL_REASON_OID", "CERTIFICATE_ISSUER_OID", "INVALIDITY_DATE_OID",
     "CRL_NUMBER_OID", "DELTA_CRL_INDICATOR_OID", "ISSUING_DISTRIBUTION_POINT_OID",
     "NONCE_OID", "MS_CERTIFICATE_TEMPLATE"}
OtherOids == {"POLICY_MAPPINGS_OID", "SUBJECT_DIRECTORY_ATTRIBUTES_OID"}
AllOids == TableOids \cup OtherOids

\* one value of each class, to call every OID with
Samples ==
    {PyNone, PyInt(1), PyStr(<<>>), PyStr(<<97>>), PyBytes(<<>>), PyList(<<>>),
     KeyUsage([a \in KeyUsageAttrs |-> a = "digital_signature"]),
     Iterable("SignedCertificateTimestamps", <<Sct(3)>>),
     Iterable("CertificatePolicies",
              <<PyPolicyInformation(ObjectIdentifier("2.5.29.32.0"), PyNone)>>),
     Iterable("ExtendedKeyUsage", <<ObjectIdentifier("1.3.6.1.5.5.7.3.1")>>),
     Iterable("GeneralNames", <<DNSName(<<97>>)>>),
     Iterable("CRLDistributionPoints",
              <<PyDistributionPoint(PyList(<<DNSName(<<97>>)>>), PyNone, PyNone, PyNone)>>),
     [kind |-> "NameConstraints", permitted_subtrees |-> PyList(<<DNSName(<<97>>)>>),
      excluded_subtrees |-> PyNone],
     [kind |-> "BasicConstraints", ca |-> PyBool(TRUE), path_length |-> PyNone],
     [kind |-> "CRLNumber", crl_number |-> PyInt(1)],
     [kind |-> "CRLNumber", crl_number |-> PyInt(-1)],
     [kind |-> "OCSPNoCheck"]}

\* the calls: every OID with its own extension values, and every OID with
\* every sample
Inputs ==
    ({"BASIC_CONSTRAINTS_OID"} \X BasicConstraintsSet)
    \cup ({"SUBJECT_KEY_IDENTIFIER_OID"} \X SubjectKeyIdentifiers)
    \cup ({"KEY_USAGE_OID"} \X KeyUsages)
    \cup ({"AUTHORITY_INFORMATION_ACCESS_OID", "SUBJECT_INFORMATION_ACCESS_OID"}
          \X AccessDescriptions)
    \cup ({"EXTENDED_KEY_USAGE_OID", "ACCEPTABLE_RESPONSES_OID"} \X OidLists)
    \cup ({"CERTIFICATE_POLICIES_OID"} \X PolicyLists)
    \cup ({"POLICY_CONSTRAINTS_OID"} \X PolicyConstraintsSet)
    \cup ({"NAME_CONSTRAINTS_OID"} \X NameConstraintsSet)
    \cup ({"INHIBIT_ANY_POLICY_OID"} \X InhibitAnyPolicies)
    \cup ({"ISSUER_ALTERNATIVE_NAME_OID", "SUBJECT_ALTERNATIVE_NAME_OID",
           "CERTIFICATE_ISSUER_OID"} \X AlternativeNames)
    \cup ({"AUTHORITY_KEY_IDENTIFIER_OID"} \X AuthorityKeyIdentifiers)
    \cup ({"FRESHEST_CRL_OID", "CRL_DISTRIBUTION_POINTS_OID"} \X DistributionPointLists)
    \cup ({"TLS_FEATURE_OID"} \X TlsFeatures)
    \cup ({"PRECERT_SIGNED_CERTIFICATE_TIMESTAMPS_OID",
           "SIGNED_CERTIFICATE_TIMESTAMPS_OID"} \X SctLists)
    \cup ({"CRL_REASON_OID"} \X CrlReasons)
    \cup ({"INVALIDITY_DATE_OID"} \X InvalidityDates)
    \cup ({"CRL_NUMBER_OID", "DELTA_CRL_INDICATOR_OID"} \X CrlNumbers)
    \cup ({"ISSUING_DISTRIBUTION_POINT_OID"} \X IssuingDistributionPoints)
    \cup ({"NONCE_OID"} \X Nonces)
    \cup ({"MS_CERTIFICATE_TEMPLATE"} \X MsCertificateTemplates)
    \cup ({"OCSP_NO_CHECK_OID", "PRECERT_POISON_OID"} \X Markers)
    \cup (AllOids \X Samples)

(***************************************************************************)
(* The state machine: a call of encode_extension runs the arm its OID      *)
(* selects and returns.                                                    *)
(***************************************************************************)
NotReturned == [returned |-> FALSE]

Init ==
    /\ \E i \in Inputs : oid = i[1] /\ ext = i[2]
    /\ pc = "call"
    /\ result = NotReturned

\* One action per arm of the match: the arm the OID selects runs to its end
\* and the call returns.
BasicConstraintsArm ==
    /\ pc = "call"
    /\ match_arm(oid) = "basic_constraints"
    /\ result' = arm_result("basic_constraints", ext)
    /\ pc' = "done"
    /\ UNCHANGED <<oid, ext>>

SubjectKeyIdentifierArm ==
    /\ pc = "call"
    /\ match_arm(oid) = "subject_key_identifier"
    /\ result' = arm_result("subject_key_identifier", ext)
    /\ pc' = "done"
    /\ UNCHANGED <<oid, ext>>

KeyUsageArm ==
    /\ pc = "call"
    /\ match_arm(oid) = "key_usage"
    /\ result' = arm_result("key_usage", ext)
    /\ pc' = "done"
    /\ UNCHANGED <<oid, ext>>

AccessDescriptionsArm ==
    /\ pc = "call"
    /\ match_arm(oid) = "access_descriptions"
    /\ result' = arm_result("access_descriptions", ext)
    /\ pc' = "done"
    /\ UNCHANGED <<oid, ext>>

OidSequenceArm ==
    /\ pc = "call"
    /\ match_arm(oid) = "oid_sequence"
    /\ result' = arm_result("oid_sequence", ext)
    /\ pc' = "done"
    /\ UNCHANGED <<oid, ext>>

CertificatePoliciesArm ==
    /\ pc = "call"
    /\ match_arm(oid) = "certificate_policies"
    /\ result' = arm_result("certificate_policies", ext)
    /\ pc' = "done"
    /\ UNCHANGED <<oid, ext>>

PolicyConstraintsArm ==
    /\ pc = "call"
    /\ match_arm(oid) = "policy_constraints"
    /\ result' = arm_result("policy_constraints", ext)
    /\ pc' = "done"
    /\ UNCHANGED <<oid, ext>>

NameConstraintsArm ==
    /\ pc = "call"
    /\ match_arm(oid) = "name_constraints"
    /\ result' = arm_result("name_constraints", ext)
    /\ pc' = "done"
    /\ UNCHANGED <<oid, ext>>

InhibitAnyPolicyArm ==
    /\ pc = "call"
    /\ match_arm(oid) = "inhibit_any_policy"
    /\ result' = arm_result("inhibit_any_policy", ext)
    /\ pc' = "done"
    /\ UNCHANGED <<oid, ext>>

AlternativeNameArm ==
    /\ pc = "call"
    /\ match_arm(oid) = "alternative_name"
    /\ result' = arm_result("alternative_name", ext)
    /\ pc' = "done"
    /\ UNCHANGED <<oid, ext>>

AuthorityKeyIdentifierArm ==
    /\ pc = "call"
    /\ match_arm(oid) = "authority_key_identifier"
    /\ result' = arm_result("authority_key_identifier", ext)
    /\ pc' = "done"
    /\ UNCHANGED <<oid, ext>>

DistributionPointsArm ==
    /\ pc = "call"
    /\ match_arm(oid) = "distribution_points"
    /\ result' = arm_result("distribution_points", ext)
    /\ pc' = "done"
    /\ UNCHANGED <<oid, ext>>

OcspNoCheckArm ==
    /\ pc = "call"
    /\ match_arm(oid) = "ocsp_no_check"
    /\ result' = arm_result("ocsp_no_check", ext)
    /\ pc' = "done"
    /\ UNCHANGED <<oid, ext>>

TlsFeatureArm ==
    /\ pc = "call"
    /\ match_arm(oid) = "tls_feature"
    /\ result' = arm_result("tls_feature", ext)
    /\ pc' = "done"
    /\ UNCHANGED <<oid, ext>>

PrecertPoisonArm ==
    /\ pc = "call"
    /\ match_arm(oid) = "precert_poison"
    /\ result' = arm_result("precert_poison", ext)
    /\ pc' = "done"
    /\ UNCHANGED <<oid, ext>>

SctsArm ==
    /\ pc = "call"
    /\ match_arm(oid) = "scts"
    /\ result' = arm_result("scts", ext)
    /\ pc' = "done"
    /\ UNCHANGED <<oid, ext>>

CrlReasonArm ==
    /\ pc = "call"
    /\ match_arm(oid) = "crl_reason"
    /\ result' = arm_result("crl_reason", ext)
    /\ pc' = "done"
    /\ UNCHANGED <<oid, ext>>

CertificateIssuerArm ==
    /\ pc = "call"
    /\ match_arm(oid) = "certificate_issuer"
    /\ result' = arm_result("certificate_issuer", ext)
    /\ pc' = "done"
    /\ UNCHANGED <<oid, ext>>

InvalidityDateArm ==
    /\ pc = "call"
    /\ match_arm(oid) = "invalidity_date"
    /\ result' = arm_result("invalidity_date", ext)
    /\ pc' = "done"
    /\ UNCHANGED <<oid, ext>>

CrlNumberArm ==
    /\ pc = "call"
    /\ match_arm(oid) = "crl_number"
    /\ result' = arm_result("crl_number", ext)
    /\ pc' = "done"
    /\ UNCHANGED <<oid, ext>>

IssuingDistributionPointArm ==
    /\ pc = "call"
    /\ match_arm(oid) = "issuing_distribution_point"
    /\ result' = arm_result("issuing_distribution_point", ext)
    /\ pc' = "done"
    /\ UNCHANGED <<oid, ext>>

NonceArm ==
    /\ pc = "call"
    /\ match_arm(oid) = "nonce"
    /\ result' = arm_result("nonce", ext)
    /\ pc' = "done"
    /\ UNCHANGED <<oid, ext>>

MsCertificateTemplateArm ==
    /\ pc = "call"
    /\ match_arm(oid) = "ms_certificate_template"
    /\ result' = arm_result("ms_certificate_template", ext)
    /\ pc' = "done"
    /\ UNCHANGED <<oid, ext>>

WildcardArm ==
    /\ pc = "call"
    /\ match_arm(oid) = "_"
    /\ result' = arm_result("_", ext)
    /\ pc' = "done"
    /\ UNCHANGED <<oid, ext>>

Next ==
    \/ BasicConstraintsArm
    \/ SubjectKeyIdentifierArm
    \/ KeyUsageArm
    \/ AccessDescriptionsArm
    \/ OidSequenceArm
    \/ CertificatePoliciesArm
    \/ PolicyConstraintsArm
    \/ NameConstraintsArm
    \/ InhibitAnyPolicyArm
    \/ AlternativeNameArm
    \/ AuthorityKeyIdentifierArm
    \/ DistributionPointsArm
    \/ OcspNoCheckArm
    \/ TlsFeatureArm
    \/ PrecertPoisonArm
    \/ SctsArm
    \/ CrlReasonArm
    \/ CertificateIssuerArm
    \/ InvalidityDateArm
    \/ CrlNumberArm
    \/ IssuingDistributionPointArm
    \/ NonceArm
    \/ MsCertificateTemplateArm
    \/ WildcardArm

Spec == Init /\ [][Next]_vars

(***************************************************************************)
(* Properties.  A call has returned when pc = "done"; result is then what  *)
(* encode_extension returned for (oid, ext).                               *)
(***************************************************************************)
\* the call was encode_extension(KEY_USAGE_OID, a KeyUsage object) and returned
KeyUsageReturned == pc = "done" /\ oid = "KEY_USAGE_OID" /\ ext.kind = "KeyUsage"

\* the returned DER is a BIT STRING (tag 3, short length, unused-bit octet)
IsBitString(der) == Len(der) >= 3 /\ der[1] = 3 /\ der[2] = Len(der) - 2

\* the content bytes and the unused-bit count of a DER BIT STRING
BitStringContent(der) == SubSeq(der, 4, Len(der))
BitStringUnused(der) == der[3]

\* a KeyUsage object with exactly the flags of the set on
KeyUsageWith(on) == KeyUsage([a \in KeyUsageAttrs |-> a \in on])

\* C1: for every combination of the nine KeyUsage flags the BIT STRING of
\* encode_key_usage is DER-minimal: 0, 1 or 2 content bytes, a non-zero last
\* content byte, an unused-bit count in 0..7 that is the number of trailing
\* zero bits of that last byte, and no content bytes with unused-bit count 0
\* when no bit is set; digital_signature alone gives the content byte 0x80
\* with unused-bit count 7.
C1_KeyUsageDerMinimal ==
    KeyUsageReturned =>
        /\ result.ok
        /\ is_some(result.val)
        /\ IsBitString(unwrap(result.val))
        /\ LET content == BitStringContent(unwrap(result.val))
               unused == BitStringUnused(unwrap(result.val))
           IN /\ Len(content) \in 0..2
              /\ unused \in 0..7
              /\ Len(content) > 0 =>
                    /\ content[Len(content)] # 0
                    /\ content[Len(content)] % (2 ^ unused) = 0
                    /\ content[Len(content)] % (2 ^ (unused + 1)) # 0
              /\ Len(content) = 0 => unused = 0
              /\ (\A i \in 1..7 : ~ext[KeyUsageFlags[i]].b) => Len(content) = 0
              /\ ext = KeyUsageWith({"digital_signature"}) =>
                    content = <<128>> /\ unused = 7

\* C1's case: digital_signature alone was encoded to 03 02 07 80
C1_Witness ==
    /\ KeyUsageReturned
    /\ ext = KeyUsageWith({"digital_signature"})
    /\ result = Ok(Some(<<3, 2, 7, 128>>))

\* C2 as stated: KeyUsage{key_agreement, encipher_only} gives 2 content
\* bytes, the second 0x40, with unused-bit count 1.
C2_AsStated ==
    (KeyUsageReturned /\ ext = KeyUsageWith({"key_agreement", "encipher_only"})) =>
        /\ result.ok
        /\ Len(BitStringContent(unwrap(result.val))) = 2
        /\ BitStringContent(unwrap(result.val))[2] = 64
        /\ BitStringUnused(unwrap(result.val)) = 1

\* C2: KeyUsage{key_agreement=true, encipher_only=true, decipher_only=false,
\* every other flag false} sets bits 4 and 7, both in the first byte: the
\* BIT STRING has the single content byte 0x09 and unused-bit count 0.
C2_KeyAgreementEncipherOnly ==
    (KeyUsageReturned /\ ext = KeyUsageWith({"key_agreement", "encipher_only"})) =>
        /\ result.ok
        /\ is_some(result.val)
        /\ IsBitString(unwrap(result.val))
        /\ BitStringContent(unwrap(result.val)) = <<9>>
        /\ BitStringUnused(unwrap(result.val)) = 0

\* C2's case: that KeyUsage was encoded
C2_Witness ==
    /\ KeyUsageReturned
    /\ ext = KeyUsageWith({"key_agreement", "encipher_only"})
    /\ result.ok

\* bit n (most significant bit first) of a byte string, false past its end
BitAt(bytes, n) ==
    /\ n \div 8 + 1 <= Len(bytes)
    /\ (bytes[n \div 8 + 1] \div (2 ^ (7 - (n % 8)))) % 2 = 1

\* the bit the KeyUsage object e is to have at position n
KeyUsageBit(e, n) ==
    CASE n \in 0..6 -> e[KeyUsageFlags[n + 1]].b
      [] n = 7 -> e.key_agreement.b /\ e.encipher_only.b
      [] n = 8 -> e.key_agreement.b /\ e.decipher_only.b
      [] OTHER -> FALSE

\* C3: in the output of encode_key_usage bit n (byte n/8, mask
\* 1 << (7 - n mod 8)) is set exactly when the n-th of the seven flags is
\* true for n in 0..6, when key_agreement and encipher_only are true for
\* n = 7, when key_agreement and decipher_only are true for n = 8; so with
\* key_agreement false the output is the same for every value of
\* encipher_only and decipher_only.
C3_KeyUsageBitLayout ==
    KeyUsageReturned =>
        /\ result.ok
        /\ is_some(result.val)
        /\ \A n \in 0..15 :
              BitAt(BitStringContent(unwrap(result.val)), n) <=> KeyUsageBit(ext, n)
        /\ ~ext.key_agreement.b =>
              \A e \in KeyUsages :
                  (\A i \in 1..7 : e[KeyUsageFlags[i]] = ext[KeyUsageFlags[i]])
                      => encode_extension(oid, e) = result

\* C3's case: key_agreement false with encipher_only and decipher_only
\* true, encoded without bits 7 and 8
C3_Witness ==
    /\ KeyUsageReturned
    /\ ext = KeyUsageWith({"crl_sign", "encipher_only", "decipher_only"})
    /\ result = Ok(Some(<<3, 2, 1, 2>>))

\* the call was encode_extension(an SCT-list OID, a list of Sct objects) and
\* returned
SctsReturned ==
    /\ pc = "done"
    /\ oid \in {"PRECERT_SIGNED_CERTIFICATE_TIMESTAMPS_OID",
                "SIGNED_CERTIFICATE_TIMESTAMPS_OID"}
    /\ ext \in SctLists

\* the content bytes of a DER OCTET STRING (short or long length form)
OctetStringContent(der) ==
    SubSeq(der, (IF der[2] < 128 THEN 2 ELSE 2 + (der[2] - 128)) + 1, Len(der))

\* the payload from position pos on is exactly the entries of items: for
\* each one a 2-byte big-endian prefix equal to its length, then its bytes
RECURSIVE FramedFrom(_, _, _)
FramedFrom(payload, pos, items) ==
    IF Len(items) = 0 THEN pos = Len(payload) + 1
    ELSE /\ pos + 1 + Len(items[1].sct_data) <= Len(payload)
         /\ payload[pos] * 256 + payload[pos + 1] = Len(items[1].sct_data)
         /\ SubSeq(payload, pos + 2, pos + 1 + Len(items[1].sct_data))
                = items[1].sct_data
         /\ FramedFrom(payload, pos + 2 + Len(items[1].sct_data), Tail(items))

\* C4 as stated: for every list of SCT blobs the OCTET STRING payload of
\* encode_scts is a 2-byte big-endian total-length prefix equal to the
\* number of payload bytes that follow it, then for each SCT in input order
\* a 2-byte big-endian prefix equal to the blob's length and the blob, also
\* when the sum reaches or exceeds 65536.
C4_SctFraming ==
    SctsReturned =>
        /\ result.ok
        /\ is_some(result.val)
        /\ unwrap(result.val)[1] = 4
        /\ LET payload == OctetStringContent(unwrap(result.val))
           IN /\ Len(payload) >= 2
              /\ payload[1] * 256 + payload[2] = Len(payload) - 2
              /\ FramedFrom(payload, 3, ext.items)

\* C4's small case: blobs of 5 and 3 bytes give 00 0C 00 05 <5> 00 03 <3>
C4_Witness ==
    /\ SctsReturned
    /\ ext.items = <<Sct(5), Sct(3)>>
    /\ result.ok
    /\ OctetStringContent(unwrap(result.val))
           = <<0, 12, 0, 5>> \o Sct(5).sct_data \o <<0, 3>> \o Sct(3).sct_data

\* C5: encode_extension returns Ok(None), never an error, for every OID
\* outside its table, whatever the value; for every OID of the table it
\* returns bytes or an error, never Ok(None).
C5_NoEncodingOnlyForUnknownOid ==
    pc = "done" =>
        /\ oid \notin TableOids => result = Ok(None)
        /\ oid \in TableOids => (~result.ok \/ is_some(result.val))

\* C5's case: an OID outside the table was called with a value a table
\* encoder would reject, and Ok(None) came back
C5_Witness ==
    /\ pc = "done"
    /\ oid = "POLICY_MAPPINGS_OID"
    /\ ext = PyNone
    /\ result = Ok(None)

\* the other OID of the match arm an OID shares
SharingPartner(o) ==
    CASE o = "FRESHEST_CRL_OID" -> "CRL_DISTRIBUTION_POINTS_OID"
      [] o = "CRL_DISTRIBUTION_POINTS_OID" -> "FRESHEST_CRL_OID"
      [] o = "EXTENDED_KEY_USAGE_OID" -> "ACCEPTABLE_RESPONSES_OID"
      [] o = "ACCEPTABLE_RESPONSES_OID" -> "EXTENDED_KEY_USAGE_OID"
      [] o = "CRL_NUMBER_OID" -> "DELTA_CRL_INDICATOR_OID"
      [] o = "DELTA_CRL_INDICATOR_OID" -> "CRL_NUMBER_OID"
      [] OTHER -> o

\* C6: for the same value encode_extension returns the same bytes or the
\* same failure under both OIDs of freshest_crl / crl_distribution_points,
\* extended_key_usage / acceptable_responses and crl_number /
\* delta_crl_indicator; under precert_poison and ocsp_no_check it returns
\* the DER NULL 05 00 whatever the value is.
C6_SharedEncoders ==
    pc = "done" =>
        /\ SharingPartner(oid) # oid =>
              encode_extension(SharingPartner(oid), ext) = result
        /\ oid \in {"PRECERT_POISON_OID", "OCSP_NO_CHECK_OID"} =>
              result = Ok(Some(<<5, 0>>))

\* C6's case: a non-empty OID list was encoded under acceptable_responses
C6_Witness ==
    /\ pc = "done"
    /\ oid = "ACCEPTABLE_RESPONSES_OID"
    /\ ext \in OidLists
    /\ Len(ext.items) = 2
    /\ result.ok

\* the calls of the two distribution-point encoders that returned
IdpReturned ==
    /\ pc = "done"
    /\ oid = "ISSUING_DISTRIBUTION_POINT_OID"
    /\ ext \in IssuingDistributionPoints
DpsReturned ==
    /\ pc = "done"
    /\ oid \in {"FRESHEST_CRL_OID", "CRL_DISTRIBUTION_POINTS_OID"}
    /\ ext \in DistributionPointLists

\* the form of an encoded optional distribution-point name
NameForm(dpn) == IF is_some(dpn) THEN unwrap(dpn).choice ELSE "none"

\* the distribution-point name is the FullName form built from py_full_name
IsFullNameOf(dpn, py_full_name) ==
    /\ is_some(dpn)
    /\ unwrap(dpn).choice = "FullName"
    /\ unwrap(dpn).name = SequenceOfWriter_new(encode_general_names(py_full_name).val)

\* C7 as stated: in encode_distribution_points and in
\* encode_issuing_distribution_point, when full_name and relative_name are
\* both supplied (here: both non-empty, the reading that asks least) the
\* name is the FullName form built from full_name, and for the same
\* (full_name, relative_name) the two encoders select the same form.
C7_SamePrecedence ==
    /\ IdpReturned =>
          /\ result.ok
          /\ (is_truthy(ext.full_name) /\ is_truthy(ext.relative_name)) =>
                IsFullNameOf(unwrap(result.val).distribution_point, ext.full_name)
          /\ NameForm(unwrap(result.val).distribution_point)
                = NameForm(dp_distribution_point(
                      PyDistributionPoint(ext.full_name, ext.relative_name,
                                          PyNone, PyNone)).val)
    /\ DpsReturned =>
          /\ result.ok
          /\ \A i \in 1..Len(ext.items) :
                /\ (is_truthy(ext.items[i].full_name)
                    /\ is_truthy(ext.items[i].relative_name)) =>
                      IsFullNameOf(unwrap(result.val).elems[i].distribution_point,
                                   ext.items[i].full_name)
                /\ NameForm(unwrap(result.val).elems[i].distribution_point)
                      = NameForm(idp_distribution_point(ext.items[i]).val)

\* C7's agreeing case: both names non-empty, the FullName form encoded by
\* encode_issuing_distribution_point
C7_Witness ==
    /\ IdpReturned
    /\ is_truthy(ext.full_name)
    /\ is_truthy(ext.relative_name)
    /\ result.ok
    /\ NameForm(unwrap(result.val).distribution_point) = "FullName"

\* the call was encode_extension(NAME_CONSTRAINTS_OID, a NameConstraints
\* object) and returned
NameConstraintsReturned ==
    /\ pc = "done"
    /\ oid = "NAME_CONSTRAINTS_OID"
    /\ ext \in NameConstraintsSet

\* the encoded field out is what the subtree list py is to give: absent if
\* py is None, else one GeneralSubtree per name, in order, minimum 0 and
\* maximum absent
SubtreesMatch(py, out) ==
    IF is_none(py) THEN out = None
    ELSE /\ is_some(out)
         /\ Len(unwrap(out).elems) = Len(py.items)
         /\ \A i \in 1..Len(py.items) :
               unwrap(out).elems[i]
                   = [asn1 |-> "GeneralSubtree",
                      base |-> encode_general_name(py.items[i]).val,
                      minimum |-> 0, maximum |-> None]

\* every name of the subtree list py can be encoded
SubtreesEncodable(py) ==
    is_none(py) \/ \A i \in 1..Len(py.items) : encode_general_name(py.items[i]).ok

\* C8: for NameConstraints the call succeeds exactly when every name of
\* both lists can be encoded, and then each of permitted_subtrees and
\* excluded_subtrees is absent if its list is absent, else one
\* GeneralSubtree per input name, in input order, with minimum = 0 and
\* maximum absent; the encoding of one list is the same whatever the other
\* list holds.
C8_SubtreesIndependent ==
    NameConstraintsReturned =>
        /\ result.ok <=> (/\ SubtreesEncodable(ext.permitted_subtrees)
                          /\ SubtreesEncodable(ext.excluded_subtrees))
        /\ result.ok =>
              /\ SubtreesMatch(ext.permitted_subtrees,
                               unwrap(result.val).permitted_subtrees)
              /\ SubtreesMatch(ext.excluded_subtrees,
                               unwrap(result.val).excluded_subtrees)
              /\ \A other \in NameConstraintsSet :
                    encode_extension(oid, other).ok =>
                        /\ other.permitted_subtrees = ext.permitted_subtrees =>
                              unwrap(encode_extension(oid, other).val).permitted_subtrees
                                  = unwrap(result.val).permitted_subtrees
                        /\ other.excluded_subtrees = ext.excluded_subtrees =>
                              unwrap(encode_extension(oid, other).val).excluded_subtrees
                                  = unwrap(result.val).excluded_subtrees

\* C8's case: two permitted names and one excluded name were encoded
C8_Witness ==
    /\ NameConstraintsReturned
    /\ ext.permitted_subtrees = PyList(<<DNSName(<<98>>), DNSName(<<97>>)>>)
    /\ ext.excluded_subtrees = PyList(<<DNSName(<<97>>)>>)
    /\ result.ok

\* the call was encode_extension(CERTIFICATE_POLICIES_OID, a list of
\* policies) and returned
CertificatePoliciesReturned ==
    /\ pc = "done"
    /\ oid = "CERTIFICATE_POLICIES_OID"
    /\ ext \in PolicyLists

\* the qualifiers the encoder visits for a policy
VisitedQualifiers(py_policy_info) ==
    IF is_truthy(py_policy_info.policy_qualifiers)
    THEN py_policy_info.policy_qualifiers.items
    ELSE <<>>

\* a CPS-URI qualifier with a character outside ASCII
NonAsciiCpsUri(q) == q.kind = "str" /\ \E c \in 1..Len(q.chars) : q.chars[c] >= 128

\* qualifier j of policy i is a non-ASCII CPS-URI
NonAsciiAt(i, j) ==
    /\ i \in 1..Len(ext.items)
    /\ j \in 1..Len(VisitedQualifiers(ext.items[i]))
    /\ NonAsciiCpsUri(VisitedQualifiers(ext.items[i])[j])

\* some CPS-URI qualifier of some policy is not ASCII
HasNonAsciiCpsUri ==
    \E i \in 1..Len(ext.items) :
        \E j \in 1..Len(VisitedQualifiers(ext.items[i])) : NonAsciiAt(i, j)

\* every qualifier and policy visited before qualifier j of policy i encodes
NothingFailsBefore(i, j) ==
    /\ \A k \in 1..(i - 1) : encode_policy_information(ext.items[k]).ok
    /\ \A l \in 1..(j - 1) : encode_qualifier(VisitedQualifiers(ext.items[i])[l]).ok

AsciiError == Err("ValueError: Qualifier must be an ASCII-string.")

\* C9 as stated: whenever any CPS-URI qualifier of any policy is not ASCII,
\* encode_certificate_policies fails with "Qualifier must be an
\* ASCII-string.", and with all CPS-URIs ASCII that error never occurs.
C9_AsStated ==
    CertificatePoliciesReturned =>
        /\ HasNonAsciiCpsUri => result = AsciiError
        /\ ~HasNonAsciiCpsUri => result # AsciiError

\* C9: whenever any CPS-URI qualifier of any policy is not ASCII, at any
\* position, encode_certificate_policies fails and returns no bytes; the
\* error is "Qualifier must be an ASCII-string." when nothing visited before
\* the first such qualifier fails, otherwise it is the error of the element
\* that failed first; with all CPS-URIs ASCII that error never occurs.
C9_NonAsciiCpsUriFails ==
    CertificatePoliciesReturned =>
        /\ HasNonAsciiCpsUri => ~result.ok
        /\ \A i \in 1..Len(ext.items) :
              \A j \in 1..Len(VisitedQualifiers(ext.items[i])) :
                  (NonAsciiAt(i, j) /\ NothingFailsBefore(i, j)) => result = AsciiError
        /\ (HasNonAsciiCpsUri /\ result # AsciiError) =>
              \E i \in 1..Len(ext.items) :
                  \E j \in 1..Len(VisitedQualifiers(ext.items[i])) :
                      /\ ~NonAsciiCpsUri(VisitedQualifiers(ext.items[i])[j])
                      /\ NothingFailsBefore(i, j)
                      /\ result = encode_qualifier(VisitedQualifiers(ext.items[i])[j])
        /\ ~HasNonAsciiCpsUri => result # AsciiError

\* C9's case: the non-ASCII CPS-URI is the last qualifier of the second
\* policy, after qualifiers that encode, and the ASCII error came back
C9_Witness ==
    /\ CertificatePoliciesReturned
    /\ Len(ext.items) = 2
    /\ VisitedQualifiers(ext.items[1]) = <<PyStr(<<97>>)>>
    /\ VisitedQualifiers(ext.items[2]) = <<PyStr(<<97>>), PyStr(NonAscii)>>
    /\ result = AsciiError

\* the encoded qualifier out is the encoding of the qualifier q, with the
\* notice numbers in input order
QualifierMatches(q, out) ==
    IF q.kind = "str"
    THEN /\ out.policy_qualifier_id = "CP_CPS_URI_OID"
         /\ out.qualifier.chars = q.chars
    ELSE /\ out.policy_qualifier_id = "CP_USER_NOTICE_OID"
         /\ is_truthy(q.notice_reference) =>
               /\ is_some(out.qualifier.notice_ref)
               /\ LET nums == unwrap(out.qualifier.notice_ref).notice_numbers.elems
                      py_nums == q.notice_reference.notice_numbers.items
                  IN /\ Len(nums) = Len(py_nums)
                     /\ \A k \in 1..Len(py_nums) : nums[k] = big_uint(py_nums[k].n).val

\* the encoded policy out is the encoding of the policy p, with the
\* qualifiers in input order
PolicyMatches(p, out) ==
    /\ out.policy_identifier = py_oid_to_oid(p.policy_identifier).val
    /\ IF is_truthy(p.policy_qualifiers)
       THEN /\ is_some(out.policy_qualifiers)
            /\ Len(unwrap(out.policy_qualifiers).elems) = Len(p.policy_qualifiers.items)
            /\ \A j \in 1..Len(p.policy_qualifiers.items) :
                  QualifierMatches(p.policy_qualifiers.items[j],
                                   unwrap(out.policy_qualifiers).elems[j])
       ELSE out.policy_qualifiers = None

\* C10: for the lists of policies, qualifiers, notice numbers, OIDs of the
\* OID-sequence encoder, TLS features, SCT entries, name-constraint
\* subtrees and distribution points, a successful encoding has as many
\* elements as the input and its i-th element is the encoding of the i-th
\* input element: nothing sorted, dropped or de-duplicated.
C10_ListsKeepOrderAndCount ==
    (pc = "done" /\ result.ok) =>
        /\ (oid \in {"EXTENDED_KEY_USAGE_OID", "ACCEPTABLE_RESPONSES_OID"}
            /\ ext \in OidLists) =>
              /\ Len(unwrap(result.val).elems) = Len(ext.items)
              /\ \A i \in 1..Len(ext.items) :
                    unwrap(result.val).elems[i] = py_oid_to_oid(ext.items[i]).val
        /\ (oid = "TLS_FEATURE_OID" /\ ext \in TlsFeatures) =>
              /\ Len(unwrap(result.val).elems) = Len(ext.items)
              /\ \A i \in 1..Len(ext.items) :
                    unwrap(result.val).elems[i] = ext.items[i].value.n
        /\ SctsReturned =>
              FramedFrom(OctetStringContent(unwrap(result.val)), 3, ext.items)
        /\ CertificatePoliciesReturned =>
              /\ Len(unwrap(result.val).elems) = Len(ext.items)
              /\ \A i \in 1..Len(ext.items) :
                    PolicyMatches(ext.items[i], unwrap(result.val).elems[i])
        /\ NameConstraintsReturned =>
              /\ SubtreesMatch(ext.permitted_subtrees,
                               unwrap(result.val).permitted_subtrees)
              /\ SubtreesMatch(ext.excluded_subtrees,
                               unwrap(result.val).excluded_subtrees)
        /\ DpsReturned =>
              /\ Len(unwrap(result.val).elems) = Len(ext.items)
              /\ \A i \in 1..Len(ext.items) :
                    unwrap(result.val).elems[i]
                        = encode_distribution_point(ext.items[i]).val

\* C10's case: an OID list with the same OID twice was encoded to two
\* elements
C10_Witness ==
    /\ pc = "done"
    /\ oid = "EXTENDED_KEY_USAGE_OID"
    /\ ext \in OidLists
    /\ Len(ext.items) = 2
    /\ ext.items[1] = ext.items[2]
    /\ result.ok
    /\ Len(unwrap(result.val).elems) = 2

(***************************************************************************)
(* Independent decoders of the byte formats, for the round trip.           *)
(***************************************************************************)
\* a DER BIT STRING read back as a KeyUsage object: flag n is bit n of the
\* content (most significant bit first), false past its end
decode_key_usage(der) ==
    KeyUsage([a \in KeyUsageAttrs |->
        CASE a = "encipher_only" -> BitAt(BitStringContent(der), 7)
          [] a = "decipher_only" -> BitAt(BitStringContent(der), 8)
          [] OTHER ->
               \E n \in 1..7 :
                   KeyUsageFlags[n] = a /\ BitAt(BitStringContent(der), n - 1)])

\* an entry put in front of the entries decoded after it
sct_cons(data, rest) ==
    IF ~rest.ok THEN rest
    ELSE Ok(<<[kind |-> "Sct", sct_data |-> data]>> \o rest.val)

\* the entries of an SCT list: for each one a 2-byte big-endian length and
\* that many bytes, until the bytes are used up
RECURSIVE decode_sct_entries(_)
decode_sct_entries(bytes) ==
    IF Len(bytes) = 0 THEN Ok(<<>>)
    ELSE IF Len(bytes) < 2 THEN Err("short read")
    ELSE IF Len(bytes) - 2 < bytes[1] * 256 + bytes[2] THEN Err("short read")
    ELSE sct_cons(SubSeq(bytes, 3, 2 + bytes[1] * 256 + bytes[2]),
                  decode_sct_entries(
                      SubSeq(bytes, 3 + bytes[1] * 256 + bytes[2], Len(bytes))))

\* an SCT list payload read back as the list of Sct objects: a 2-byte
\* big-endian total length, then that many bytes of entries (bytes after
\* them are not looked at, the most lenient reading)
decode_scts(payload) ==
    IF Len(payload) < 2 THEN Err("short read")
    ELSE IF Len(payload) - 2 < payload[1] * 256 + payload[2] THEN Err("short read")
    ELSE decode_sct_entries(SubSeq(payload, 3, 2 + payload[1] * 256 + payload[2]))

\* the value of big-endian bytes
RECURSIVE be_value(_)
be_value(bytes) ==
    IF Len(bytes) = 0 THEN 0
    ELSE be_value(SubSeq(bytes, 1, Len(bytes) - 1)) * 256 + bytes[Len(bytes)]

\* a DER INTEGER (short length form) read back as a host integer
decode_big_uint(der) == PyInt(be_value(SubSeq(der, 3, Len(der))))

\* the decoded SCT list as the host object of the class of ext
DecodedScts(decoded) == Iterable("SignedCertificateTimestamps", decoded.val)

\* C11 as stated: for every value the encoders accept, decoding the bytes
\* with an independent decoder and encoding the decoded value again gives
\* the same bytes: for KeyUsage over all flag combinations, for SCT lists
\* over all lists (and here also for the big-integer extensions).
C11_RoundTrip ==
    (pc = "done" /\ result.ok) =>
        /\ (oid = "KEY_USAGE_OID" /\ ext.kind = "KeyUsage") =>
              encode_extension(oid, decode_key_usage(unwrap(result.val))) = result
        /\ SctsReturned =>
              /\ decode_scts(OctetStringContent(unwrap(result.val))).ok
              /\ encode_extension(oid,
                     DecodedScts(decode_scts(OctetStringContent(unwrap(result.val)))))
                   = result
        /\ (oid \in {"CRL_NUMBER_OID", "DELTA_CRL_INDICATOR_OID"} /\ ext \in CrlNumbers) =>
              encode_extension(oid, [ext EXCEPT !.crl_number =
                                        decode_big_uint(unwrap(result.val))]) = result
        /\ (oid = "INHIBIT_ANY_POLICY_OID" /\ ext \in InhibitAnyPolicies) =>
              encode_extension(oid, [ext EXCEPT !.skip_certs =
                                        decode_big_uint(unwrap(result.val))]) = result

\* the part of C11 that holds: the round trip of KeyUsage, of the big
\* integers, and of the SCT lists whose framing is at most 65535 bytes
C11_RoundTripBelowU16 ==
    (pc = "done" /\ result.ok) =>
        /\ (SctsReturned => Len(OctetStringContent(unwrap(result.val))) - 2 >= 65536)
              \/ C11_RoundTrip

\* C11's agreeing case: a two-byte KeyUsage (decipher_only set) was encoded
\* and reads back to the same flags
C11_Witness ==
    /\ KeyUsageReturned
    /\ ext = KeyUsageWith({"key_agreement", "decipher_only"})
    /\ result = Ok(Some(<<3, 3, 7, 8, 128>>))
    /\ decode_key_usage(unwrap(result.val)) = ext

\* the encoded optional field out keeps the input py: omitted if py is
\* None, present (an empty value if py is empty) if py is anything else
FieldKept(py, out) == IF is_none(py) THEN out = None ELSE is_some(out)

\* the same for the distribution-point name dpn, a CHOICE of the two
\* optional inputs: omitted only if both are None, else the form of the
\* first input that is not None
NameKept(py_full_name, py_relative_name, dpn) ==
    NameForm(dpn) = IF ~is_none(py_full_name) THEN "FullName"
                    ELSE IF ~is_none(py_relative_name) THEN "NameRelativeToCRLIssuer"
                    ELSE "none"

\* the optional fields of an encoded user notice keep those of q
NoticeFieldsKept(q, out) ==
    q.kind = "UserNotice" =>
        /\ FieldKept(q.notice_reference, out.qualifier.notice_ref)
        /\ FieldKept(q.explicit_text, out.qualifier.explicit_text)

\* the optional fields of an encoded policy keep those of p
PolicyFieldsKept(p, out) ==
    /\ FieldKept(p.policy_qualifiers, out.policy_qualifiers)
    /\ is_some(out.policy_qualifiers) =>
          \A j \in 1..Len(unwrap(out.policy_qualifiers).elems) :
              NoticeFieldsKept(p.policy_qualifiers.items[j],
                               unwrap(out.policy_qualifiers).elems[j])

\* the fields tested with "is None": those of NameConstraints and of
\* DistributionPoint
IsNoneFieldsKept ==
    /\ NameConstraintsReturned =>
          /\ FieldKept(ext.permitted_subtrees, unwrap(result.val).permitted_subtrees)
          /\ FieldKept(ext.excluded_subtrees, unwrap(result.val).excluded_subtrees)
    /\ DpsReturned =>
          \A i \in 1..Len(ext.items) :
              /\ FieldKept(ext.items[i].crl_issuer,
                           unwrap(result.val).elems[i].crl_issuer)
              /\ FieldKept(ext.items[i].reasons, unwrap(result.val).elems[i].reasons)
              /\ NameKept(ext.items[i].full_name, ext.items[i].relative_name,
                          unwrap(result.val).elems[i].distribution_point)

\* the fields tested for truthiness: those of IssuingDistributionPoint and
\* of CertificatePolicies
TruthinessFieldsKept ==
    /\ IdpReturned =>
          /\ FieldKept(ext.only_some_reasons, unwrap(result.val).only_some_reasons)
          /\ NameKept(ext.full_name, ext.relative_name,
                      unwrap(result.val).distribution_point)
    /\ CertificatePoliciesReturned =>
          \A i \in 1..Len(ext.items) :
              PolicyFieldsKept(ext.items[i], unwrap(result.val).elems[i])

\* C12 as stated: in every successful encoding, each optional field
\* (NameConstraints permitted/excluded subtrees; DistributionPoint
\* crl_issuer, full_name, relative_name, reasons; IssuingDistributionPoint
\* full_name, relative_name, only_some_reasons; CertificatePolicies
\* policy_qualifiers, notice_reference, explicit_text) is omitted when its
\* input is absent and is present when its input is present but empty.
C12_AbsentDistinctFromEmpty ==
    (pc = "done" /\ result.ok) => (IsNoneFieldsKept /\ TruthinessFieldsKept)

\* the part of C12 that holds: the fields of NameConstraints and of
\* DistributionPoint
C12_IsNoneFields == (pc = "done" /\ result.ok) => IsNoneFieldsKept

\* C12's agreeing case: a DistributionPoint with crl_issuer = [] and
\* reasons = frozenset() was encoded with an empty crl_issuer sequence and
\* an empty reasons bit string, both present
C12_Witness ==
    /\ DpsReturned
    /\ result.ok
    /\ Len(ext.items) = 1
    /\ ext.items[1].crl_issuer = PyList(<<>>)
    /\ ext.items[1].full_name = PyNone
    /\ ~is_none(ext.items[1].reasons)
    /\ ~is_truthy(ext.items[1].reasons)
    /\ unwrap(result.val).elems[1].crl_issuer = Some(SequenceOfWriter_new(<<>>))
    /\ is_some(unwrap(result.val).elems[1].reasons)

====
